---- MODULE Spec2Model ----
(***************************************************************************)
(* A model of notebooklm-enterprise-experiments-py: the search gateway     *)
(* (VertexAISearchService.search_documents and its filter-syntax           *)
(* fallback), the MCP tool handlers of servers/rag_server.py, the          *)
(* generation gateway's generate_search_params, credential loading, the    *)
(* notebook service / repository / client chain, and the domain value      *)
(* objects and the Notebook entity.                                        *)
(*                                                                         *)
(* Each component has its own variables and its own specification; while   *)
(* one component runs, the variables of the others stay at their idle      *)
(* value.  Backend replies are inputs of the environment: every action     *)
(* that calls a backend draws the reply from a small set.                  *)
(***************************************************************************)
EXTENDS Integers, Sequences, FiniteSets, TLC

(***************************************************************************)
(* Python values.  None and an absent dictionary key are sentinels that no *)
(* real string equals.                                                     *)
(***************************************************************************)
NoneVal == "<None>"
Idle == "<idle>"

\* Python truthiness of an optional string: None and "" are falsy.
Truthy(s) == s # NoneVal /\ s # ""

(***************************************************************************)
(* Bounds of the model.                                                    *)
(***************************************************************************)
\* most known or unknown phrases in one backend error message
MaxMsgLen == 2
\* most result documents in one backend response to search_documents
MaxResults == 1
\* longest output of the generative model, in tokens
MaxOutputLen == 4
\* most elements of a citations argument
MaxCitations == 2
\* most elements of a sources argument
MaxSources == 2
\* most calls of add_source on one notebook
MaxAdds == 3

(***************************************************************************)
(* ----------------------------------------------------------------------- *)
(* Search gateway: services/vertex_ai_search_service.py                    *)
(* ----------------------------------------------------------------------- *)
(***************************************************************************)
VARIABLES
    sd_pc,            \* position inside search_documents
    query,            \* argument query
    page_size,        \* argument page_size
    filter_str,       \* argument filter_str
    order_by,         \* argument order_by
    request_params,   \* the dict request_params
    request,          \* the SearchRequest last built
    sent,             \* every request handed to search_client.search, in order
    replies,          \* the backend's reply to each of them, in order
    response,         \* the local variable response
    caught,           \* the InvalidArgument caught by the except clause
    raised,           \* the exception that left search_documents
    result            \* the DocumentSearchResult returned

searchVars == <<sd_pc, query, page_size, filter_str, order_by, request_params,
                request, sent, replies, response, caught, raised, result>>

\* MCP tool handlers: servers/rag_server.py
VARIABLES
    tool_pc,          \* position inside the handler
    handler,          \* the handler that runs
    arguments,        \* the dict arguments
    search_params,    \* what generate_search_params returned
    search_result,    \* search_result.results
    tool_log,         \* the collaborators called so far, in order
    tool_raised,      \* the exception raised by a step of the handler
    tool_return,      \* the list of TextContent returned
    tool_escaped,     \* the exception that left the handler
    tool_prompt       \* the prompt generate_answer_from_context builds

toolVars == <<tool_pc, handler, arguments, search_params, search_result,
              tool_log, tool_raised, tool_return, tool_escaped,
              tool_prompt>>

\* generation gateway: ContentGenerator.generate_search_params
VARIABLES
    gp_pc,            \* position inside generate_search_params
    user_query,       \* argument user_query
    response_text,    \* response.text as the model sent it
    gp_result,        \* the dict returned
    gp_raised         \* the exception that left generate_search_params

paramVars == <<gp_pc, user_query, response_text, gp_result, gp_raised>>

\* domain value objects: NotebookId, Query, Citation, Answer
VARIABLES
    vo_pc,            \* "construct", "constructed", "raised" or "str"
    vo_class,         \* the class being constructed
    vo_args,          \* the constructor's arguments
    vo_obj,           \* the object constructed
    vo_raised,        \* the message of the ValueError raised
    vo_str            \* the value of str(obj)

valueVars == <<vo_pc, vo_class, vo_args, vo_obj, vo_raised, vo_str>>

\* the entity Notebook
VARIABLES
    nb_pc,            \* "construct", "live" (the notebook exists) or "raised"
    nb_args,          \* the constructor's arguments display_name and sources
    nb_display_name,  \* the field display_name
    nb_sources,       \* the field sources
    nb_calls,         \* the arguments of the add_source calls so far
    nb_raised         \* the message of the ValueError of the last call, or Ok

notebookVars ==
    <<nb_pc, nb_args, nb_display_name, nb_sources, nb_calls, nb_raised>>

\* credential loading: _load_credentials
VARIABLES
    lc_pc,            \* the step of _load_credentials
    key_json,         \* environment variable GCP_SERVICE_ACCOUNT_KEY_JSON
    key_path_env,     \* environment variable GCP_SERVICE_ACCOUNT_KEY_PATH
    file_exists,      \* whether a file stands at the path
    key_info,         \* local key_info
    key_path,         \* local key_path
    cred_log,         \* the calls made so far, in order
    lc_result,        \* the credentials returned
    lc_raised         \* the exception raised

credVars == <<lc_pc, key_json, key_path_env, file_exists, key_info, key_path,
              cred_log, lc_result, lc_raised>>

\* NotebookService over NotebookRepositoryImpl and NotebookLMClient
VARIABLES
    svc_pc,           \* the step of the service method
    svc_op,           \* "create_notebook", "add_sources" or "ask"
    svc_request,      \* the request DTO
    svc_notebook_id,  \* local notebook_id, a NotebookId
    svc_query,        \* local query, a Query
    repo_calls,       \* the repository operations invoked
    backend_calls,    \* the RPCs sent to the notebook backend
    svc_operation,    \* the import operation: "none", "running", "done", "failed"
    svc_response,     \* the backend's response
    svc_raised,       \* the exception that left the method
    svc_return        \* the value returned

serviceVars == <<svc_pc, svc_op, svc_request, svc_notebook_id, svc_query,
                 repo_calls, backend_calls, svc_operation, svc_response,
                 svc_raised, svc_return>>

\* search_and_answer
VARIABLES
    sa_pc,            \* "search", "parse", "returned" or "raised"
    sa_query,         \* argument query
    sa_response,      \* the backend's response: its summary and its results
    sa_result,        \* the SearchResult returned
    sa_raised         \* the exception that left the call

answerVars == <<sa_pc, sa_query, sa_response, sa_result, sa_raised>>

\* call_tool
VARIABLES
    ct_pc,            \* "call", "handler" (a handler runs), "returned", "raised"
    ct_name,          \* argument name
    ct_arguments,     \* argument arguments
    ct_invoked,       \* the handlers invoked, each with the arguments it got
    ct_return,        \* the value call_tool returns
    ct_raised         \* the exception call_tool raises

dispatchVars ==
    <<ct_pc, ct_name, ct_arguments, ct_invoked, ct_return, ct_raised>>

\* main of scripts/generate_slides.py and scripts/generate_infographic.py
VARIABLES
    cli_pc,             \* "config", "search", "check", "generate", "write",
                        \* "preview", "exited"
    cli_script,         \* which script runs
    cli_args,           \* the parsed command line
    cli_env,            \* the environment variables
    cli_model_name,     \* model_name
    cli_calls,          \* the backend steps made, each with its outcome
    cli_search_result,  \* search_result
    cli_source_text,    \* source_text
    cli_generated,      \* slide_markdown / mermaid_code
    cli_files,          \* the write_text calls that wrote the output file
    cli_printed,        \* the error or warning line printed
    cli_exit            \* <<>> while running, then the exit status

scriptVars ==
    <<cli_pc, cli_script, cli_args, cli_env, cli_model_name, cli_calls,
      cli_search_result, cli_source_text, cli_generated, cli_files,
      cli_printed, cli_exit>>

\* _parse_response of infrastructure/external/vertex_ai_search_service.py
VARIABLES
    cv_pc,          \* "parse", "returned", "raised"
    cv_response,    \* the AnswerQueryResponse
    cv_result,      \* the SearchResult returned
    cv_raised       \* the exception that leaves _parse_response

convVars == <<cv_pc, cv_response, cv_result, cv_raised>>

vars ==
    <<searchVars, toolVars, paramVars, valueVars, notebookVars, credVars,
      serviceVars, answerVars, dispatchVars, scriptVars, convVars>>

notSearch ==
    <<toolVars, paramVars, valueVars, notebookVars, credVars, serviceVars,
      answerVars, dispatchVars, scriptVars, convVars>>
notTool ==
    <<searchVars, paramVars, valueVars, notebookVars, credVars, serviceVars,
      answerVars, dispatchVars, scriptVars, convVars>>
notParams ==
    <<searchVars, toolVars, valueVars, notebookVars, credVars, serviceVars,
      answerVars, dispatchVars, scriptVars, convVars>>
notValue ==
    <<searchVars, toolVars, paramVars, notebookVars, credVars, serviceVars,
      answerVars, dispatchVars, scriptVars, convVars>>
notNotebook ==
    <<searchVars, toolVars, paramVars, valueVars, credVars, serviceVars,
      answerVars, dispatchVars, scriptVars, convVars>>
notCred ==
    <<searchVars, toolVars, paramVars, valueVars, notebookVars, serviceVars,
      answerVars, dispatchVars, scriptVars, convVars>>
notService ==
    <<searchVars, toolVars, paramVars, valueVars, notebookVars, credVars,
      answerVars, dispatchVars, scriptVars, convVars>>
notAnswer ==
    <<searchVars, toolVars, paramVars, valueVars, notebookVars, credVars,
      serviceVars, dispatchVars, scriptVars, convVars>>
notDispatch ==
    <<searchVars, toolVars, paramVars, valueVars, notebookVars, credVars,
      serviceVars, answerVars, scriptVars, convVars>>
notScript ==
    <<searchVars, toolVars, paramVars, valueVars, notebookVars, credVars,
      serviceVars, answerVars, dispatchVars, convVars>>
notConv ==
    <<searchVars, toolVars, paramVars, valueVars, notebookVars, credVars,
      serviceVars, answerVars, dispatchVars, scriptVars>>

\* the substrings of line 239-244
filter_errors == <<"Unsupported field", "Invalid filter syntax",
                   "Unsupported rhs value", "Parsing filter failed">>

\* An error message is the set of phrases that are substrings of it.
\* "unsupported field" differs from the first known substring by case only.
Phrases == {filter_errors[i] : i \in 1..Len(filter_errors)}
              \cup {"unsupported field", "Quota exceeded"}

SeqsUpTo(S, n) == UNION {[1..k -> S] : k \in 0..n}

ErrorMessages ==
    {m \in SUBSET Phrases : Cardinality(m) >= 1 /\ Cardinality(m) <= MaxMsgLen}

\* err in error_msg
Contains(error_msg, err) == err \in error_msg

\* any(err in error_msg for err in filter_errors), line 245
IsFilterError(error_msg) ==
    \E k \in 1..Len(filter_errors) : Contains(error_msg, filter_errors[k])

\* The exception classes the backend client raises.  InvalidArgument is the
\* one the except clause of line 236 names.
ErrorClasses == {"InvalidArgument", "NotFound", "ServiceUnavailable"}

NoError == [cls |-> "none", msg |-> {}, call |-> 0]

\* the errors the backend can answer its n-th call with
BackendErrors(n) ==
    {[cls |-> c, msg |-> m, call |-> n] : c \in ErrorClasses, m \in ErrorMessages}

\* the except clause of line 236 catches this exception
CaughtAsInvalidArgument(e) == e.cls = "InvalidArgument"

(***************************************************************************)
(* Backend responses.  A text is a sequence of tokens, so that the markup  *)
(* removal of lines 325-329 can be computed; its length in characters is   *)
(* the sum of the lengths of its tokens.  A source object is an ordered    *)
(* dictionary: a sequence of key/value pairs in insertion order.           *)
(***************************************************************************)
RECURSIVE StrLen(_)
StrLen(text) == IF text = <<>> THEN 0 ELSE Len(Head(text)) + StrLen(Tail(text))

\* found_text.replace("<b>", "").replace("</b>", "").replace("\n", " ")
RECURSIVE CleanText(_)
CleanText(text) ==
    IF text = <<>> THEN <<>>
    ELSE LET t == Head(text)
             rest == CleanText(Tail(text))
         IN  IF t \in {"<b>", "</b>"} THEN rest
             ELSE IF t = "\n" THEN <<" ">> \o rest
             ELSE <<t>> \o rest

\* source_obj.get(key): the value, or a falsy value when the key is missing
RECURSIVE ObjGet(_, _)
ObjGet(obj, key) ==
    IF obj = <<>> THEN <<>>
    ELSE IF Head(obj).k = key THEN Head(obj).v
    ELSE ObjGet(Tail(obj), key)

\* a or b on two texts
Or(a, b) == IF a # <<>> THEN a ELSE b

\* lines 304-309
KnownFieldText(obj) ==
    Or(ObjGet(obj, "content"),
       Or(ObjGet(obj, "snippet"),
          Or(ObjGet(obj, "htmlSnippet"), ObjGet(obj, "text"))))

\* the loop of lines 315-317: the first strictly longest value
RECURSIVE LongestFrom(_, _)
LongestFrom(obj, longest_str) ==
    IF obj = <<>> THEN longest_str
    ELSE LongestFrom(Tail(obj),
                     IF StrLen(Head(obj).v) > StrLen(longest_str)
                     THEN Head(obj).v ELSE longest_str)

\* the threshold of line 318
NoiseLen == 10

\* a slip that takes the longest value whatever its length
FoundTextOfAnyLength(obj) ==
    IF KnownFieldText(obj) # <<>> THEN KnownFieldText(obj)
    ELSE LongestFrom(obj, <<>>)

\* lines 302-321: the text found in one source object, <<>> when none
FoundText(obj) ==
    LET known == KnownFieldText(obj)
        longest_str == LongestFrom(obj, <<>>)
    IN  IF known # <<>> THEN known
        ELSE IF StrLen(longest_str) > NoiseLen THEN longest_str
        ELSE <<>>

\* lines 300-330: the cleaned text of every source that has a text
RECURSIVE ContentParts(_)
ContentParts(sources) ==
    IF sources = <<>> THEN <<>>
    ELSE LET found_text == FoundText(Head(sources))
         IN  (IF found_text # <<>> THEN <<CleanText(found_text)>> ELSE <<>>)
                 \o ContentParts(Tail(sources))

\* "\n\n".join(content_parts)
RECURSIVE JoinParts(_)
JoinParts(parts) ==
    IF parts = <<>> THEN <<>>
    ELSE IF Len(parts) = 1 THEN Head(parts)
    ELSE Head(parts) \o <<"\n", "\n">> \o JoinParts(Tail(parts))

\* lines 290-296: a missing key contributes nothing
Sources(data) ==
    data.extractive_segments \o data.extractive_answers \o data.snippets

FallbackContent == <<"(no content)">>
UntitledTitle == "(untitled)"

\* data.get(key, default) followed by str()
GetOr(v, default) == IF v = NoneVal THEN default ELSE v

\* a slip that returns the joined text as it is
KeepEmptyContent(full_content) == full_content

\* lines 341-343
ContentOrFallback(full_content) ==
    IF full_content = <<>> THEN FallbackContent ELSE full_content

\* one pass of the loop body of lines 272-351: the documents it appends
ParseDocument(r) ==
    IF ~r.document \/ ~r.data
    THEN <<>>
    ELSE <<[title |-> GetOr(r.title, UntitledTitle),
            content |-> ContentOrFallback(JoinParts(ContentParts(Sources(r)))),
            url |-> GetOr(r.link, "")]>>

RECURSIVE _parse_document_response(_)
_parse_document_response(resp) ==
    IF resp = <<>> THEN <<>>
    ELSE ParseDocument(Head(resp)) \o _parse_document_response(Tail(resp))

\* texts and source objects the backend sends
TextPlain == <<"decided to ship">>
TextMarkup == <<"<b>", "ship", "</b>", "\n", "today">>
TextOnlyMarkup == <<"<b>", "</b>">>
TextTen == <<"0123456789">>
TextEleven == <<"0123456789", "x">>
TextElevenB == <<"y", "0123456789">>

Pair(key, value) == [k |-> key, v |-> value]

SrcContent == <<Pair("content", TextPlain), Pair("text", TextMarkup)>>
SrcSnippet == <<Pair("snippet", TextMarkup)>>
SrcEmptyContent == <<Pair("content", <<>>), Pair("text", TextPlain)>>
SrcOnlyMarkup == <<Pair("htmlSnippet", TextOnlyMarkup)>>
SrcUnknownLong ==
    <<Pair("pageNumber", TextTen), Pair("body", TextEleven),
      Pair("alt", TextElevenB)>>
SrcUnknownShort == <<Pair("id", TextTen)>>

Result(doc, dat, t, l, seg, ans, sn) ==
    [document |-> doc, data |-> dat, title |-> t, link |-> l,
     extractive_segments |-> seg, extractive_answers |-> ans, snippets |-> sn]

\* the results of a backend response: no document, empty struct data, and
\* documents whose sources cover every branch of the extraction
ResultShapes ==
    {Result(FALSE, FALSE, NoneVal, NoneVal, <<>>, <<>>, <<>>),
     Result(TRUE, FALSE, NoneVal, NoneVal, <<>>, <<>>, <<>>),
     Result(TRUE, TRUE, "Minutes", "gs://b/minutes.pdf", <<>>, <<>>, <<SrcContent>>),
     Result(TRUE, TRUE, NoneVal, "gs://b/plan.pdf", <<SrcSnippet>>,
            <<SrcEmptyContent>>, <<>>),
     Result(TRUE, TRUE, "Notes", NoneVal, <<>>, <<>>, <<SrcOnlyMarkup>>),
     Result(TRUE, TRUE, "Empty", "gs://b/empty.pdf", <<>>, <<>>, <<>>),
     Result(TRUE, TRUE, "Ids", "gs://b/ids.pdf", <<>>, <<>>, <<SrcUnknownShort>>),
     Result(TRUE, TRUE, "Scan", "gs://b/scan.pdf", <<SrcUnknownLong>>, <<>>, <<>>),
     Result(TRUE, TRUE, "Tags", "gs://b/tags.pdf", <<>>, <<>>,
            <<SrcOnlyMarkup, SrcOnlyMarkup>>)}

Responses == SeqsUpTo(ResultShapes, MaxResults)

NoResponse == <<Result(FALSE, FALSE, Idle, Idle, <<>>, <<>>, <<>>)>>

NoResult == <<[title |-> Idle, content |-> <<>>, url |-> Idle]>>

(***************************************************************************)
(* Building the request, lines 199-223.                                    *)
(***************************************************************************)
Queries == {"minutes"}
PageSizes == {20, 5}
FilterArgs == {NoneVal, "", "date >= '2026-01-26'"}
OrderArgs == {NoneVal, "", "date desc"}

\* request_params of lines 200-211: the keys that are always set
BaseParams(q, n) ==
    [serving_config |-> "default_serving_config", query |-> q,
     page_size |-> n, content_search_spec |-> "snippets+extractive"]

\* d[key] = value on a dict
DictSet(d, key, value) ==
    [k \in DOMAIN d \cup {key} |-> IF k = key THEN value ELSE d[k]]

\* d.pop(key, None)
DictPop(d, key) == [k \in DOMAIN d \ {key} |-> d[k]]

\* lines 213-221: a falsy filter_str or order_by adds no key
WithFilter(d, f) == IF Truthy(f) THEN DictSet(d, "filter", f) ELSE d
WithOrder(d, o) == IF Truthy(o) THEN DictSet(d, "order_by", o) ELSE d

\* a slip that forgets the second pop
WithoutFilterOnly(d) == DictPop(d, "filter")

\* lines 251-252
WithoutFilterAndOrder(d) == DictPop(DictPop(d, "filter"), "order_by")

\* discoveryengine.SearchRequest(**request_params): a field not given is ""
SearchRequest(d) ==
    [serving_config |-> d.serving_config, query |-> d.query,
     page_size |-> d.page_size, content_search_spec |-> d.content_search_spec,
     filter |-> IF "filter" \in DOMAIN d THEN d["filter"] ELSE "",
     order_by |-> IF "order_by" \in DOMAIN d THEN d["order_by"] ELSE ""]

NoRequest == SearchRequest(BaseParams(Idle, 0))

SearchInit ==
    /\ sd_pc = "start"
    /\ query \in Queries
    /\ page_size \in PageSizes
    /\ filter_str \in FilterArgs
    /\ order_by \in OrderArgs
    /\ request_params = BaseParams(Idle, 0)
    /\ request = NoRequest
    /\ sent = <<>>
    /\ replies = <<>>
    /\ response = NoResponse
    /\ caught = NoError
    /\ raised = NoError
    /\ result = NoResult

SearchIdle ==
    /\ sd_pc = Idle
    /\ query = Idle
    /\ page_size = 0
    /\ filter_str = Idle
    /\ order_by = Idle
    /\ request_params = BaseParams(Idle, 0)
    /\ request = NoRequest
    /\ sent = <<>>
    /\ replies = <<>>
    /\ response = NoResponse
    /\ caught = NoError
    /\ raised = NoError
    /\ result = NoResult

(***************************************************************************)
(* search_documents, lines 163-259.  The steps are cut at the calls of     *)
(* search_client.search: the backend's reply is the environment's choice.  *)
(***************************************************************************)

\* lines 200-223: build request_params and the first request
BuildRequest ==
    /\ sd_pc = "start"
    /\ request_params' = WithOrder(WithFilter(BaseParams(query, page_size),
                                              filter_str), order_by)
    /\ request' = SearchRequest(request_params')
    /\ sd_pc' = "try_search"
    /\ UNCHANGED <<query, page_size, filter_str, order_by, sent, replies,
                   response, caught, raised, result>>
    /\ UNCHANGED notSearch

\* a slip that retries on every InvalidArgument, whatever its message
ExceptNextAnyInvalidArgument(e) ==
    IF CaughtAsInvalidArgument(e) THEN "fallback_search" ELSE "raised"

\* what the except clause of lines 236-256 does with exception e of the try
\* block: retry without filter and order_by, or let e go
ExceptNext(e) ==
    IF CaughtAsInvalidArgument(e) /\ IsFilterError(e.msg)
    THEN "fallback_search" ELSE "raised"

\* an exception e leaves the try block of lines 226-234
TryFails(e) ==
    /\ replies' = Append(replies, e.cls)
    /\ response' = NoResponse
    /\ sd_pc' = ExceptNext(e)
    /\ IF ExceptNext(e) = "fallback_search"
       THEN /\ caught' = e
            /\ request_params' = WithoutFilterAndOrder(request_params)
            /\ request' = SearchRequest(request_params')
            /\ raised' = raised
       ELSE /\ raised' = e
            /\ UNCHANGED <<caught, request_params, request>>

\* line 227: the first search of the try block
TrySearch ==
    /\ sd_pc = "try_search"
    /\ sent' = Append(sent, request)
    /\ \/ \E r \in Responses :
            /\ response' = r
            /\ replies' = Append(replies, "ok")
            /\ sd_pc' = "try_search_again"
            /\ UNCHANGED <<caught, raised, request_params, request>>
       \/ \E e \in BackendErrors(Len(sent) + 1) : TryFails(e)
    /\ UNCHANGED <<query, page_size, filter_str, order_by, result>>
    /\ UNCHANGED notSearch

\* lines 230-234: the results are counted, then the search is sent again
TrySearchAgain ==
    /\ sd_pc = "try_search_again"
    /\ sent' = Append(sent, request)
    /\ \/ \E r \in Responses :
            /\ response' = r
            /\ replies' = Append(replies, "ok")
            /\ sd_pc' = "parse"
            /\ UNCHANGED <<caught, raised, request_params, request>>
       \/ \E e \in BackendErrors(Len(sent) + 1) : TryFails(e)
    /\ UNCHANGED <<query, page_size, filter_str, order_by, result>>
    /\ UNCHANGED notSearch

\* a slip that turns the fallback into a loop on filter errors
FallbackFailsRetries(e) ==
    /\ replies' = Append(replies, e.cls)
    /\ response' = NoResponse
    /\ IF CaughtAsInvalidArgument(e) /\ IsFilterError(e.msg)
       THEN raised' = raised /\ sd_pc' = "fallback_search"
       ELSE raised' = e /\ sd_pc' = "raised"

\* line 254 raises e: the call stands in the except clause, outside the try
\* block, so e leaves search_documents
FallbackFails(e) ==
    /\ replies' = Append(replies, e.cls)
    /\ response' = NoResponse
    /\ raised' = e
    /\ sd_pc' = "raised"

\* line 254: the search without filter and order_by, inside the except clause
FallbackSearch ==
    /\ sd_pc = "fallback_search"
    /\ sent' = Append(sent, request)
    /\ \/ \E r \in Responses :
            /\ response' = r
            /\ replies' = Append(replies, "ok")
            /\ sd_pc' = "parse"
            /\ raised' = raised
       \/ \E e \in BackendErrors(Len(sent) + 1) : FallbackFails(e)
    /\ UNCHANGED <<query, page_size, filter_str, order_by, request_params,
                   request, caught, result>>
    /\ UNCHANGED notSearch

\* line 259
ParseAndReturn ==
    /\ sd_pc = "parse"
    /\ result' = _parse_document_response(response)
    /\ sd_pc' = "returned"
    /\ UNCHANGED <<query, page_size, filter_str, order_by, request_params,
                   request, sent, replies, response, caught, raised>>
    /\ UNCHANGED notSearch

SearchNext ==
    \/ BuildRequest
    \/ TrySearch
    \/ TrySearchAgain
    \/ FallbackSearch
    \/ ParseAndReturn


(***************************************************************************)
(* Properties of search_documents.                                         *)
(***************************************************************************)
FilterOrOrderSupplied == Truthy(filter_str) \/ Truthy(order_by)

IsFilterRejection(e) == e.cls = "InvalidArgument" /\ IsFilterError(e.msg)

\* a request with its filter and order_by fields cleared, all else the same
Stripped(req) == [req EXCEPT !.filter = "", !.order_by = ""]

\* C1: when a filter and/or order_by is supplied and the backend rejects a
\* request of the try block with an InvalidArgument whose message contains a
\* known filter/sort substring, the next request is the rejected one with
\* filter and order_by removed (query, page size and content options the
\* same), the value returned is the parsed reply to that request, and the
\* rejection itself never leaves search_documents.
C1_FallbackWithoutFilter ==
    FilterOrOrderSupplied =>
        /\ caught # NoError =>
              /\ caught.call \in 1..Len(sent)
              /\ request = Stripped(sent[caught.call])
              /\ sd_pc # "fallback_search" =>
                    /\ Len(sent) = caught.call + 1
                    /\ sent[Len(sent)] = Stripped(sent[caught.call])
                    /\ replies[caught.call] = "InvalidArgument"
              /\ sd_pc = "returned" =>
                    /\ raised = NoError
                    /\ replies[Len(replies)] = "ok"
                    /\ result = _parse_document_response(response)
              /\ raised.call # caught.call
        /\ (caught = NoError /\ raised # NoError) => ~IsFilterRejection(raised)

C1_Witness ==
    /\ sd_pc = "returned"
    /\ Truthy(filter_str) /\ Truthy(order_by)
    /\ caught.cls = "InvalidArgument"
    /\ "Invalid filter syntax" \in caught.msg
    /\ caught.call = 1
    /\ Len(sent) = 2
    /\ sent[1].filter = filter_str /\ sent[1].order_by = order_by
    /\ result # <<>>

\* C2: an InvalidArgument whose message holds none of the known substrings,
\* and any error of another class, is never swallowed: only filter/sort
\* rejections are caught, every other error reply is the exception that
\* leaves search_documents, it is the reply to the last request sent, and
\* no request follows it.
C2_OtherErrorsPropagate ==
    /\ caught # NoError => IsFilterRejection(caught)
    /\ raised # NoError =>
          /\ sd_pc = "raised"
          /\ raised.call = Len(sent)
          /\ raised \in BackendErrors(Len(sent))
          /\ replies[Len(replies)] = raised.cls
    /\ \A i \in 1..Len(replies) :
          replies[i] # "ok" => (i = caught.call \/ i = raised.call)
    /\ sd_pc = "raised" => raised # NoError

C2_Witness ==
    /\ sd_pc = "raised"
    /\ FilterOrOrderSupplied
    /\ raised.cls = "InvalidArgument"
    /\ raised.msg = {"unsupported field", "Quota exceeded"}
    /\ caught = NoError
    /\ Len(sent) = 1

\* C3: the fallback is attempted at most once per invocation: after a
\* filter/sort rejection at most one request follows, it carries neither
\* filter nor order_by, and when it fails, even with a filter/sort error,
\* that error leaves search_documents and nothing more is sent.
C3_AtMostOneFallback ==
    caught # NoError =>
        /\ Len(sent) <= caught.call + 1
        /\ \A i \in 1..Len(sent) :
              i > caught.call => sent[i].filter = "" /\ sent[i].order_by = ""
        /\ (Len(sent) = caught.call + 1 /\ replies[Len(replies)] # "ok") =>
              /\ sd_pc = "raised"
              /\ raised.call = Len(sent)

C3_Witness ==
    /\ sd_pc = "raised"
    /\ caught # NoError
    /\ IsFilterRejection(raised)
    /\ raised.call = caught.call + 1

\* the result holds a document
HasDocument(r) == r.document

\* the result holds a document with struct data, the ones the loop keeps
IsKept(r) == r.document /\ r.data

\* no text is extracted from the result's document: it has no source, no
\* source has a usable field, or what its sources hold is markup that cleans
\* to the empty string
ExtractsNoText(r) ==
    LET parts == ContentParts(Sources(r))
    IN  \A i \in 1..Len(parts) : parts[i] = <<>>

\* C12: every DocumentResult returned by search_documents has non-empty
\* content: whenever the text extracted for a document is empty (no
\* sources, no usable field, or only markup that cleans to the empty
\* string) the content is the fallback marker, never the empty string.
C12_FallbackMarkerWhenNoText ==
    sd_pc = "returned" =>
        LET kept == SelectSeq(response, IsKept)
        IN  /\ \A i \in 1..Len(result) : result[i].content # <<>>
            /\ Len(result) = Len(kept)
            /\ \A i \in 1..Len(result) :
                  ExtractsNoText(kept[i]) => result[i].content = FallbackContent

\* how many elements of the sequence satisfy the test
CountIf(seq, Test(_)) == Len(SelectSeq(seq, Test))

ZeroTextDocument(r) == HasDocument(r) /\ ExtractsNoText(r)

HasFallbackContent(doc) == doc.content = FallbackContent

\* C13: search_documents never drops a result document for lack of
\* extractable content: every document of the backend response that yields
\* zero extractable text appears in the returned DocumentSearchResult with
\* the fallback content string.
C13_NoDocumentDropped ==
    sd_pc = "returned" =>
        /\ Len(result) = CountIf(response, HasDocument)
        /\ CountIf(result, HasFallbackContent)
              = CountIf(response, ZeroTextDocument)

\* the hierarchy as the contract states it
KnownFields == <<"content", "snippet", "htmlSnippet", "text">>

FieldValue(obj, key) ==
    IF \E i \in 1..Len(obj) : obj[i].k = key
    THEN obj[CHOOSE i \in 1..Len(obj) : obj[i].k = key].v
    ELSE <<>>

Least(S) == CHOOSE n \in S : \A m \in S : n <= m

ContractText(obj) ==
    LET hits == {n \in 1..Len(KnownFields) : FieldValue(obj, KnownFields[n]) # <<>>}
        longest == {i \in 1..Len(obj) :
                      \A j \in 1..Len(obj) : StrLen(obj[j].v) <= StrLen(obj[i].v)}
    IN  IF hits # {} THEN FieldValue(obj, KnownFields[Least(hits)])
        ELSE IF longest # {} /\ StrLen(obj[Least(longest)].v) > 10
        THEN obj[Least(longest)].v
        ELSE <<>>

HasContractText(obj) == ContractText(obj) # <<>>

ContractContent(r) ==
    LET visited == r.extractive_segments \o r.extractive_answers \o r.snippets
        used == SelectSeq(visited, HasContractText)
    IN  JoinParts([i \in 1..Len(used) |-> CleanText(ContractText(used[i]))])

\* C26: the text of a source object is the first non-empty value among
\* content, snippet, htmlSnippet, text; with none of them, the first of the
\* longest values if it is longer than 10 characters; otherwise nothing.
\* The sources are visited in the order extractive_segments,
\* extractive_answers, snippets, and the content of a document is made of
\* the texts so found.
C26_ExtractionHierarchy ==
    sd_pc = "returned" =>
        LET kept == SelectSeq(response, IsKept)
        IN  /\ Len(result) = Len(kept)
            /\ \A i \in 1..Len(result) :
                  result[i].content =
                     IF ContractContent(kept[i]) = <<>> THEN FallbackContent
                     ELSE ContractContent(kept[i])

C26_Witness ==
    /\ sd_pc = "returned"
    /\ Len(response) = 1
    /\ response[1].extractive_segments = <<SrcUnknownLong>>
    /\ result[1].content = TextEleven

\* C22: the backend is called a second time only when the filter-syntax
\* fallback is taken: every request after the first follows a caught
\* rejection, and an invocation whose first request succeeds has sent
\* exactly one request when it ends.
C22_OneRequestUnlessFallback ==
    /\ Len(sent) >= 2 => caught # NoError
    /\ (sd_pc \in {"returned", "raised"} /\ replies # <<>> /\ replies[1] = "ok") =>
          Len(sent) = 1

RejectedFirst ==
    replies # <<>> /\ replies[1] = "InvalidArgument"

\* C23: with neither filter nor order_by supplied, an InvalidArgument of
\* the backend, whatever its message, leaves search_documents and no
\* second request is sent.
C23_NoFallbackWithoutFilter ==
    (sd_pc # Idle /\ ~FilterOrOrderSupplied /\ RejectedFirst) =>
        /\ Len(sent) = 1
        /\ sd_pc = "raised"
        /\ raised.cls = "InvalidArgument"
        /\ raised.call = 1
        /\ caught = NoError

(***************************************************************************)
(* ----------------------------------------------------------------------- *)
(* MCP tool handlers: servers/rag_server.py                                *)
(* ----------------------------------------------------------------------- *)
(***************************************************************************)
Handlers == {"_search_documents", "_generate_slide_draft", "_generate_diagram"}

Absent == "<absent>"

\* the dict arguments: the value of each key, Absent when the key is missing
QueryArgs == {Absent, "", "minutes of 1/26"}
ChartTypeArgs == {Absent, "sequence"}

\* arguments.get(key, default)
ArgGet(args, key, default) == IF args[key] = Absent THEN default ELSE args[key]

\* Exceptions a step can raise; each class derives from Exception.
ExceptionClasses == {"ValueError", "AttributeError", "GoogleAPICallError"}

NoException == [cls |-> "none", at |-> "none"]

Exceptions(step) == {[cls |-> c, at |-> step] : c \in ExceptionClasses}

\* str(e)
ExcStr(e) == e.cls \o " at " \o e.at

\* TextContent(type="text", text=...); a text is the sequence of its parts
TextContent(parts) == [type |-> "text", text |-> parts]

\* the label of each handler's except clause, lines 212, 262, 311
ErrorLabel(h) ==
    CASE h = "_search_documents" -> "search error: "
      [] h = "_generate_slide_draft" -> "slide generation error: "
      [] h = "_generate_diagram" -> "diagram generation error: "

\* lines 149, 219, 269
MissingQueryText == <<"error: the query parameter is required.">>

\* lines 169, 242, 294
NoResultsText(h) ==
    CASE h = "_search_documents" -> <<"no search results found.">>
      [] h = "_generate_slide_draft" ->
            <<"no search results found.", "skipping slide generation.">>
      [] h = "_generate_diagram" ->
            <<"no search results found.", "skipping diagram generation.">>

\* what generate_search_params can return for user query q
SearchParamResults(q) ==
    {[query |-> sq, filter |-> f, order_by |-> o] :
        sq \in {q, "minutes"},
        f \in {NoneVal, "date = '2026-01-26'"},
        o \in {NoneVal, "date desc"}}

NoParams == [query |-> Idle, filter |-> Idle, order_by |-> Idle]

\* backend responses of two results
ResponsePairs ==
    {<<a, b>> : a \in ResultShapes, b \in ResultShapes}

\* what search_documents can return
SearchResults ==
    {_parse_document_response(r) : r \in Responses \cup ResponsePairs}

NoPrompt == [context |-> <<>>, question |-> Idle]

GeneratedTexts == {"generated text"}

\* the generation method each handler calls, lines 182, 257, 306
GenerationMethod(h) ==
    CASE h = "_search_documents" -> "generate_answer_from_context"
      [] h = "_generate_slide_draft" -> "generate_slide_markdown"
      [] h = "_generate_diagram" -> "generate_infographic_code"

Call(op, arg) == [op |-> op, arg |-> arg]

\* a slip that builds the generator before the try block
InTryAfterGenerator(pc) ==
    pc \in {"extract", "get_search", "search", "generate"}

\* the steps inside the try block of each handler, lines 151-211, 221-261,
\* 273-310
InTry(pc) ==
    pc \in {"get_generator", "extract", "get_search", "search", "generate"}

ToolInit ==
    /\ tool_pc = "entry"
    /\ handler \in Handlers
    /\ arguments \in [query : QueryArgs, chart_type : ChartTypeArgs]
    /\ search_params = NoParams
    /\ search_result = NoResult
    /\ tool_log = <<>>
    /\ tool_raised = NoException
    /\ tool_return = <<>>
    /\ tool_escaped = NoException
    /\ tool_prompt = NoPrompt

ToolIdle ==
    /\ tool_pc = Idle
    /\ handler = Idle
    /\ arguments = [query |-> Absent, chart_type |-> Absent]
    /\ search_params = NoParams
    /\ search_result = NoResult
    /\ tool_log = <<>>
    /\ tool_raised = NoException
    /\ tool_return = <<>>
    /\ tool_escaped = NoException
    /\ tool_prompt = NoPrompt

\* return [TextContent(...)]
Return(parts) ==
    /\ tool_return' = <<TextContent(parts)>>
    /\ tool_pc' = "returned"

\* step tool_pc raises e: the except clause turns it into the error text
\* when the step stands inside the try block
ToolRaises(e) ==
    /\ tool_raised' = e
    /\ IF InTry(tool_pc)
       THEN /\ Return(<<ErrorLabel(handler), ExcStr(e)>>)
            /\ tool_escaped' = tool_escaped
       ELSE /\ tool_escaped' = e
            /\ tool_pc' = "escaped"
            /\ tool_return' = tool_return

\* a slip that tests only whether the key is there
QueryKeyAbsent(args) == args.query = Absent

\* lines 147-148, 217-218, 267-268: not arguments.get("query", "")
MissingQuery(args) == ~Truthy(ArgGet(args, "query", ""))

\* lines 147-149, 217-219, 267-271
CheckQuery ==
    /\ tool_pc = "entry"
    /\ IF MissingQuery(arguments)
       THEN Return(MissingQueryText)
       ELSE tool_pc' = "get_generator" /\ tool_return' = tool_return
    /\ UNCHANGED <<handler, arguments, search_params, search_result, tool_log,
                   tool_raised, tool_escaped>>
    /\ UNCHANGED tool_prompt
    /\ UNCHANGED notTool

\* lines 153, 223, 275: generator = _get_content_generator()
GetContentGenerator ==
    /\ tool_pc = "get_generator"
    /\ tool_log' = Append(tool_log, Call("_get_content_generator", <<>>))
    /\ \/ /\ tool_pc' = "extract"
          /\ UNCHANGED <<tool_raised, tool_return, tool_escaped>>
       \/ \E e \in Exceptions("_get_content_generator") : ToolRaises(e)
    /\ UNCHANGED <<handler, arguments, search_params, search_result>>
    /\ UNCHANGED tool_prompt
    /\ UNCHANGED notTool

\* lines 154-158, 224-228, 276-280
ExtractSearchParams ==
    /\ tool_pc = "extract"
    /\ tool_log' = Append(tool_log,
                          Call("generate_search_params", <<arguments.query>>))
    /\ \/ \E p \in SearchParamResults(arguments.query) :
            /\ search_params' = p
            /\ tool_pc' = "get_search"
            /\ UNCHANGED <<tool_raised, tool_return, tool_escaped>>
       \/ \E e \in Exceptions("generate_search_params") :
            ToolRaises(e) /\ search_params' = search_params
    /\ UNCHANGED <<handler, arguments, search_result>>
    /\ UNCHANGED tool_prompt
    /\ UNCHANGED notTool

\* lines 161, 231, 283: search_service = _get_search_service()
GetSearchService ==
    /\ tool_pc = "get_search"
    /\ tool_log' = Append(tool_log, Call("_get_search_service", <<>>))
    /\ \/ /\ tool_pc' = "search"
          /\ UNCHANGED <<tool_raised, tool_return, tool_escaped>>
       \/ \E e \in Exceptions("_get_search_service") : ToolRaises(e)
    /\ UNCHANGED <<handler, arguments, search_params, search_result>>
    /\ UNCHANGED tool_prompt
    /\ UNCHANGED notTool

\* a slip that leaves out the test for no results
NeverEmpty(docs) == FALSE

\* lines 168, 238, 290: not search_result.results
EmptyResults(docs) == docs = <<>>

\* a slip that searches with the user's query and no filter
SearchArgsOfUser(params, args) == <<args.query, NoneVal, NoneVal>>

\* lines 156-166, 226-236, 278-288: search_query, filter_str and order_by
\* are read from search_params and handed to search_documents
SearchArgs(params, args) == <<params.query, params.filter, params.order_by>>

\* lines 162-169, 232-244, 284-296
SearchStep ==
    /\ tool_pc = "search"
    /\ tool_log' = Append(tool_log,
                          Call("search_documents",
                               SearchArgs(search_params, arguments)))
    /\ \/ \E docs \in SearchResults :
            /\ search_result' = docs
            /\ IF EmptyResults(docs)
               THEN Return(NoResultsText(handler))
               ELSE tool_pc' = "generate" /\ tool_return' = tool_return
            /\ UNCHANGED <<tool_raised, tool_escaped>>
       \/ \E e \in Exceptions("search_documents") :
            ToolRaises(e) /\ search_result' = search_result
    /\ UNCHANGED <<handler, arguments, search_params>>
    /\ UNCHANGED tool_prompt
    /\ UNCHANGED notTool

\* lines 172-179
RECURSIVE DocDicts(_)
DocDicts(docs) ==
    IF docs = <<>> THEN <<>>
    ELSE <<[title |-> Head(docs).title, content |-> Head(docs).content,
            url |-> Head(docs).url]>> \o DocDicts(Tail(docs))

\* the text of the documents handed to the generation step: lines 172-179,
\* 247-254, 299-303
RECURSIVE SlideSource(_, _)
SlideSource(docs, i) ==
    IF docs = <<>> THEN <<>>
    ELSE <<[n |-> i, title |-> Head(docs).title,
            content |-> Head(docs).content, url |-> Head(docs).url]>>
         \o SlideSource(Tail(docs), i + 1)

RECURSIVE DiagramSource(_)
DiagramSource(docs) ==
    IF docs = <<>> THEN <<>>
    ELSE (IF Head(docs).content # <<>> THEN <<Head(docs).content>> ELSE <<>>)
         \o DiagramSource(Tail(docs))

GenerationArgs(h) ==
    CASE h = "_search_documents" ->
            <<arguments.query, DocDicts(search_result)>>
      [] h = "_generate_slide_draft" -> <<SlideSource(search_result, 1)>>
      [] h = "_generate_diagram" ->
            <<DiagramSource(search_result),
              ArgGet(arguments, "chart_type", "flowchart")>>

\* search_result.results[:10] of line 203
FirstTen == 10

RECURSIVE Titles(_)
Titles(docs) ==
    IF docs = <<>> THEN <<>> ELSE <<Head(docs).title>> \o Titles(Tail(docs))

\* lines 185-209: the text of _search_documents; lines 259, 308: the others
\* return the generated text as it is
ResultText(h, generated) ==
    IF h = "_search_documents"
    THEN <<"## answer", generated>>
         \o (IF Truthy(search_params.filter) \/ Truthy(search_params.order_by)
             THEN <<"### search conditions">> ELSE <<>>)
         \o (IF Truthy(search_params.filter)
             THEN <<search_params.filter>> ELSE <<>>)
         \o (IF Truthy(search_params.order_by)
             THEN <<search_params.order_by>> ELSE <<>>)
         \o <<"### documents">>
         \o Titles(SubSeq(search_result, 1,
                          IF Len(search_result) < FirstTen
                          THEN Len(search_result) ELSE FirstTen))
    ELSE <<generated>>

\* _build_answer_prompt, content_generator.py lines 254-267: the context
\* block, one entry for each result whose content is not empty, with the
\* number enumerate(search_results, 1) gives the result
RECURSIVE ContextParts(_, _)
ContextParts(search_results, i) ==
    IF search_results = <<>> THEN <<>>
    ELSE LET res == Head(search_results)
         IN  (IF res.content # <<>>
              THEN <<[document |-> i, title |-> res.title, url |-> res.url,
                      content |-> res.content]>>
              ELSE <<>>)
             \o ContextParts(Tail(search_results), i + 1)

\* content_generator.py lines 241, 269-288: the prompt handed to the
\* generative model
AnswerPrompt(q, search_results) ==
    [context |-> ContextParts(search_results, 1), question |-> q]

\* lines 182-209, 257-259, 306-308
GenerateStep ==
    /\ tool_pc = "generate"
    /\ tool_log' = Append(tool_log,
                          Call(GenerationMethod(handler), GenerationArgs(handler)))
    /\ \/ \E text \in GeneratedTexts :
            /\ Return(ResultText(handler, text))
            /\ UNCHANGED <<tool_raised, tool_escaped>>
       \/ \E e \in Exceptions(GenerationMethod(handler)) : ToolRaises(e)
    /\ UNCHANGED <<handler, arguments, search_params, search_result>>
    /\ tool_prompt' = IF handler = "_search_documents"
                      THEN AnswerPrompt(arguments.query, DocDicts(search_result))
                      ELSE tool_prompt
    /\ UNCHANGED notTool

ToolNext ==
    \/ CheckQuery
    \/ GetContentGenerator
    \/ ExtractSearchParams
    \/ GetSearchService
    \/ SearchStep
    \/ GenerateStep

(***************************************************************************)
(* Properties of the tool handlers.                                        *)
(***************************************************************************)
\* C4: no exception escapes a tool handler: whatever a step of the handler
\* raises (building the generator or the search service, extracting the
\* search parameters, searching, generating), the handler returns exactly
\* one text block, which holds the handler's error label and the text of
\* the exception.
C4_NoExceptionEscapes ==
    /\ tool_escaped = NoException
    /\ tool_pc # "escaped"
    /\ tool_raised # NoException =>
          /\ tool_pc = "returned"
          /\ Len(tool_return) = 1
          /\ tool_return[1].type = "text"
          /\ tool_return[1].text = <<ErrorLabel(handler), ExcStr(tool_raised)>>
    /\ tool_pc = "returned" => Len(tool_return) = 1

C4_Witness ==
    /\ tool_pc = "returned"
    /\ handler = "_generate_diagram"
    /\ tool_raised = [cls |-> "ValueError", at |-> "_get_content_generator"]
    /\ tool_return =
          <<TextContent(<<"diagram generation error: ",
                          "ValueError at _get_content_generator">>)>>

\* the query argument is missing or empty
QueryMissingOrEmpty == arguments.query \in {Absent, ""}

\* C14: a tool call whose query argument is missing or empty returns a
\* single error text block and makes no backend call at all: neither the
\* content generator nor the search service is constructed or invoked.
C14_MissingQueryNoBackendCall ==
    (tool_pc # Idle /\ QueryMissingOrEmpty) =>
        /\ tool_log = <<>>
        /\ tool_pc \in {"entry", "returned"}
        /\ tool_pc = "returned" => tool_return = <<TextContent(MissingQueryText)>>

C14_Witness ==
    /\ handler = "_generate_diagram"
    /\ arguments.query = ""
    /\ arguments.chart_type = "sequence"
    /\ tool_pc = "returned"
    /\ tool_return = <<TextContent(MissingQueryText)>>
    /\ tool_log = <<>>

\* the search step has been made and it yielded no results
SearchYieldedNothing ==
    /\ \E i \in 1..Len(tool_log) : tool_log[i].op = "search_documents"
    /\ search_result = <<>>

GenerationInvoked ==
    \E i \in 1..Len(tool_log) : tool_log[i].op = GenerationMethod(handler)

\* C15: when the search step of a tool yields no results, the handler
\* returns the 'no search results found' message and the generation step
\* (answer, slide or diagram) is never invoked in that call.
C15_NoResultsSkipsGeneration ==
    SearchYieldedNothing =>
        /\ tool_pc = "returned"
        /\ tool_return = <<TextContent(NoResultsText(handler))>>
        /\ ~GenerationInvoked

C15_Witness ==
    /\ handler = "_generate_slide_draft"
    /\ SearchYieldedNothing
    /\ tool_pc = "returned"
    /\ tool_return =
          <<TextContent(<<"no search results found.",
                          "skipping slide generation.">>)>>

\* the backend steps of a handler in the order of its code
StepOrder(h) ==
    <<"_get_content_generator", "generate_search_params", "_get_search_service",
      "search_documents", GenerationMethod(h)>>

\* the documents a generation call was given: the dicts of the answer
\* call, the numbered entries of the slide call, the contents of the
\* diagram call
GivenTo(call) == call.arg[IF call.op = "generate_answer_from_context" THEN 2 ELSE 1]

NonEmptyContent(doc) == doc.content # <<>>

OfSearchResult(call) ==
    LET given == GivenTo(call)
    IN  IF call.op = "generate_infographic_code"
        THEN LET docs == SelectSeq(search_result, NonEmptyContent)
             IN  /\ Len(given) = Len(docs)
                 /\ \A i \in 1..Len(docs) : given[i] = docs[i].content
        ELSE /\ Len(given) = Len(search_result)
             /\ \A i \in 1..Len(given) :
                   /\ given[i].title = search_result[i].title
                   /\ given[i].content = search_result[i].content
                   /\ given[i].url = search_result[i].url

AnswerPromptBuilt ==
    /\ handler = "_search_documents"
    /\ Len(tool_log) = 5
    /\ tool_log[5].op = "generate_answer_from_context"

JsonValue(type, q, f, o) ==
    [type |-> type, query |-> q, filter |-> f, order_by |-> o]

NoJson == JsonValue("none", Absent, Absent, Absent)

JsonFull == JsonValue("object", "minutes", "date = '2026-01-30'", NoneVal)
JsonEmptyObject == JsonValue("object", Absent, Absent, Absent)
JsonPartial == JsonValue("object", NoneVal, Absent, "date desc")
JsonArray == JsonValue("array", Absent, Absent, Absent)
JsonNull == JsonValue("null", Absent, Absent, Absent)

\* The model's output is a sequence of tokens: a code fence ```, the word
\* json, white space, any other text, or the text of one JSON value.
Token(kind, val) == [kind |-> kind, val |-> val]

Fence == Token("fence", NoJson)
JsonWord == Token("json-word", NoJson)
WhiteSpace == Token("ws", NoJson)
OtherText == Token("text", NoJson)

OutputTokens ==
    {Fence, JsonWord, WhiteSpace, OtherText}
    \cup {Token("json", v) :
            v \in {JsonFull, JsonEmptyObject, JsonPartial, JsonArray, JsonNull}}

JsonObjects == {JsonFull, JsonEmptyObject, JsonPartial}

\* The text J of a JSON object as it is, in a ```json block and in a ```
\* block, with or without white space around J and around the block.
Blanks == {<<>>, <<WhiteSpace>>}
CodeBlockForms(j) ==
    {a \o fences[1] \o b \o <<Token("json", j)>> \o c \o fences[2] \o e :
        a \in Blanks, b \in Blanks, c \in Blanks, e \in Blanks,
        fences \in {<< <<>>, <<>> >>,
                    << <<Fence, JsonWord>>, <<Fence>> >>,
                    << <<Fence>>, <<Fence>> >>}}

\* every short sequence of tokens, and the code blocks around an object
ModelOutputs ==
    SeqsUpTo(OutputTokens, MaxOutputLen)
    \cup UNION {CodeBlockForms(j) : j \in JsonObjects}

UserQueries == {"minutes of 1/30", "security documents"}

\* str.strip()
RECURSIVE LStrip(_)
LStrip(text) ==
    IF text # <<>> /\ Head(text).kind = "ws" THEN LStrip(Tail(text)) ELSE text

RECURSIVE RStrip(_)
RStrip(text) ==
    IF text # <<>> /\ text[Len(text)].kind = "ws"
    THEN RStrip(SubSeq(text, 1, Len(text) - 1)) ELSE text

Strip(text) == RStrip(LStrip(text))

\* lines 316-317
DropJsonFence(text) ==
    IF Len(text) >= 2 /\ text[1] = Fence /\ text[2] = JsonWord
    THEN SubSeq(text, 3, Len(text)) ELSE text

\* a slip that strips only the ```json fence
KeepLeadingFence(text) == text

\* lines 318-319
DropLeadingFence(text) ==
    IF text # <<>> /\ Head(text) = Fence THEN Tail(text) ELSE text

\* lines 320-321
DropTrailingFence(text) ==
    IF text # <<>> /\ text[Len(text)] = Fence
    THEN SubSeq(text, 1, Len(text) - 1) ELSE text

\* lines 313-322
StripCodeBlock(text) ==
    Strip(DropTrailingFence(DropLeadingFence(DropJsonFence(Strip(text)))))

\* json.loads(text): white space around one JSON value is accepted, anything
\* else is a JSONDecodeError
JsonLoads(text) ==
    LET body == Strip(text)
    IN  IF Len(body) = 1 /\ body[1].kind = "json"
        THEN [ok |-> TRUE, value |-> body[1].val]
        ELSE [ok |-> FALSE, value |-> NoJson]

\* params.get(key, default) on a dict
ParamsGet(v, default) == IF v = Absent THEN default ELSE v

\* lines 333-337
DefaultParams(q) == [query |-> q, filter |-> NoneVal, order_by |-> NoneVal]

\* only a dict has the method get: lists, strings, numbers and None raise
\* AttributeError at line 327
HasGet(value) == value.type = "object"

NoGpError == [cls |-> "none"]

\* lines 324-337: what the try statement yields for the cleaned text
ParseParams(q, text) ==
    LET loaded == JsonLoads(text)
    IN  IF ~loaded.ok
        THEN [raised |-> NoGpError, value |-> DefaultParams(q)]
        ELSE IF ~HasGet(loaded.value)
        THEN [raised |-> [cls |-> "AttributeError"], value |-> NoParams]
        ELSE [raised |-> NoGpError,
              value |-> [query |-> ParamsGet(loaded.value.query, q),
                         filter |-> ParamsGet(loaded.value.filter, NoneVal),
                         order_by |-> ParamsGet(loaded.value.order_by, NoneVal)]]

ParamsInit ==
    /\ gp_pc = "generate_content"
    /\ user_query \in UserQueries
    /\ response_text = <<>>
    /\ gp_result = NoParams
    /\ gp_raised = NoGpError

ParamsIdle ==
    /\ gp_pc = Idle
    /\ user_query = Idle
    /\ response_text = <<>>
    /\ gp_result = NoParams
    /\ gp_raised = NoGpError

\* lines 309-310: the model answers with a text, or the call fails
GenerateContent ==
    /\ gp_pc = "generate_content"
    /\ \/ \E text \in ModelOutputs :
            /\ response_text' = text
            /\ gp_pc' = "parse"
            /\ gp_raised' = gp_raised
       \/ /\ gp_raised' = [cls |-> "GoogleAPICallError"]
          /\ gp_pc' = "raised"
          /\ response_text' = response_text
    /\ UNCHANGED <<user_query, gp_result>>
    /\ UNCHANGED notParams

\* lines 312-337
ParseResponse ==
    /\ gp_pc = "parse"
    /\ LET outcome == ParseParams(user_query, StripCodeBlock(response_text))
       IN  /\ gp_raised' = outcome.raised
           /\ gp_result' = outcome.value
           /\ gp_pc' = IF outcome.raised = NoGpError THEN "returned" ELSE "raised"
    /\ UNCHANGED <<user_query, response_text>>
    /\ UNCHANGED notParams

ParamsNext ==
    \/ GenerateContent
    \/ ParseResponse

(***************************************************************************)
(* Properties of generate_search_params.                                   *)
(***************************************************************************)
\* the output, fences and white space removed, is the text of a JSON object
IsJsonObjectText(text) ==
    LET body == StripCodeBlock(text)
    IN  Len(body) = 1 /\ body[1].kind = "json" /\ body[1].val.type = "object"

\* C5: generate_search_params never raises because of the content of the
\* model's output: for every output that is not the text of a JSON object
\* it returns {query: the user's input, filter: None, order_by: None}.
C5_MalformedOutputYieldsDefault ==
    (gp_pc \in {"returned", "raised"} /\ gp_raised.cls # "GoogleAPICallError"
        /\ ~IsJsonObjectText(response_text)) =>
            /\ gp_pc = "returned"
            /\ gp_raised = NoGpError
            /\ gp_result = DefaultParams(user_query)

\* the parameters returned for the output that is J alone
ParamsOfBare(j) ==
    ParseParams(user_query, StripCodeBlock(<<Token("json", j)>>)).value

\* C19: for any JSON object text J, the outputs J, J inside a ```json
\* block and J inside a ``` block all give the same returned parameters.
C19_FencesDoNotChangeParams ==
    \A j \in JsonObjects :
        (gp_pc \in {"returned", "raised"} /\ response_text \in CodeBlockForms(j)) =>
            /\ gp_pc = "returned"
            /\ gp_result = ParamsOfBare(j)

C19_Witness ==
    /\ response_text =
          <<Fence, JsonWord, WhiteSpace, Token("json", JsonFull), WhiteSpace, Fence>>
    /\ gp_pc = "returned"
    /\ gp_result.query = "minutes"
    /\ gp_result.filter = "date = '2026-01-30'"

\* json.loads accepted the cleaned output
ParseSucceeded == JsonLoads(StripCodeBlock(response_text)).ok
ParsedJson == JsonLoads(StripCodeBlock(response_text)).value

\* C20: on parse success each missing key is defaulted on its own, query
\* to the user's input, filter and order_by to None, every key that is
\* there comes back with its parsed value, and the result has exactly the
\* keys query, filter and order_by.
C20_PerKeyDefaults ==
    (gp_pc \in {"returned", "raised"} /\ gp_raised.cls # "GoogleAPICallError"
        /\ ParseSucceeded) =>
            /\ gp_pc = "returned"
            /\ DOMAIN gp_result = {"query", "filter", "order_by"}
            /\ gp_result.query =
                  IF ParsedJson.query = Absent THEN user_query ELSE ParsedJson.query
            /\ gp_result.filter =
                  IF ParsedJson.filter = Absent THEN NoneVal ELSE ParsedJson.filter
            /\ gp_result.order_by =
                  IF ParsedJson.order_by = Absent THEN NoneVal
                  ELSE ParsedJson.order_by

\* the same for the outputs that are the text of a JSON object
C20_PerKeyDefaultsOfObject ==
    ParsedJson.type = "object" => C20_PerKeyDefaults

(***************************************************************************)
(* ----------------------------------------------------------------------- *)
(* Domain value objects: domain/value_objects/notebook_id.py, query.py,    *)
(* answer.py                                                               *)
(* ----------------------------------------------------------------------- *)
(***************************************************************************)
\* A Python value: its type and a rendering that tells its values apart.
PyValue(type, val) == [type |-> type, val |-> val]

PyStr(s) == PyValue("str", s)
PyNone == PyValue("NoneType", "None")

PyValues ==
    {PyStr(""), PyStr(" "), PyStr("0"), PyStr("nb-1"), PyNone,
     PyValue("int", "0"), PyValue("int", "7"),
     PyValue("list", "[]"), PyValue("list", "['nb-1']")}

\* bool(v)
PyTruthy(v) ==
    CASE v.type = "str" -> v.val # ""
      [] v.type = "int" -> v.val # "0"
      [] v.type = "list" -> v.val # "[]"
      [] OTHER -> FALSE

\* isinstance(v, str)
IsStr(v) == v.type = "str"

Ok == "ok"

\* a slip that leaves out the emptiness check
NotebookIdTypeCheckOnly(value) ==
    IF ~IsStr(value) THEN "NotebookId must be a string" ELSE Ok

\* NotebookId.__post_init__, notebook_id.py lines 12-17: Ok, or the message
\* of the ValueError
NotebookId__post_init__(value) ==
    IF ~PyTruthy(value) THEN "NotebookId must not be the empty string"
    ELSE IF ~IsStr(value) THEN "NotebookId must be a string"
    ELSE Ok

\* a slip that leaves out the emptiness check
QueryTypeCheckOnly(text) ==
    IF ~IsStr(text) THEN "Query must be a string" ELSE Ok

\* Query.__post_init__, query.py lines 12-17
Query__post_init__(text) ==
    IF ~PyTruthy(text) THEN "Query must not be the empty string"
    ELSE IF ~IsStr(text) THEN "Query must be a string"
    ELSE Ok

\* Citation.__post_init__, answer.py lines 13-18
Citation__post_init__(source_title, content) ==
    IF ~IsStr(source_title) THEN "source_title must be a string"
    ELSE IF ~IsStr(content) THEN "content must be a string"
    ELSE Ok

\* The citations argument: its container type and its elements, each a
\* Citation or a value of another class.
Container(type, elems) == [type |-> type, elems |-> elems]

\* the default of the field citations, answer.py line 26
EmptyTuple == Container("tuple", <<>>)

CitationElems == {"Citation", "str", "dict"}

CitationArgs ==
    {Container(t, e) : t \in {"tuple", "list"},
                       e \in SeqsUpTo(CitationElems, MaxCitations)}
    \cup {Container("NoneType", <<>>)}

\* a slip that leaves out the check of the container
AnswerElementsCheckOnly(answer_text, citations) ==
    IF ~IsStr(answer_text) THEN "answer_text must be a string"
    ELSE IF \E i \in 1..Len(citations.elems) : citations.elems[i] # "Citation"
    THEN "the elements of citations must be Citation"
    ELSE Ok

\* Answer.__post_init__, answer.py lines 28-36
Answer__post_init__(answer_text, citations) ==
    IF ~IsStr(answer_text) THEN "answer_text must be a string"
    ELSE IF citations.type # "tuple" THEN "citations must be a tuple"
    ELSE IF \E i \in 1..Len(citations.elems) : citations.elems[i] # "Citation"
    THEN "the elements of citations must be Citation"
    ELSE Ok

\* an object: its class, up to two scalar fields and the field citations
Object(cls, f1, f2, citations) ==
    [cls |-> cls, f1 |-> f1, f2 |-> f2, citations |-> citations]

NoValue == PyValue("none", "")
NoObject == Object("none", NoValue, NoValue, Container("none", <<>>))

\* the constructor's arguments; given tells whether citations was passed
Args(a1, a2, given, citations) ==
    [a1 |-> a1, a2 |-> a2, given |-> given, citations |-> citations]

AnswerTexts == {PyStr("x"), PyStr(""), PyNone}

ConstructorCalls ==
    {<<"NotebookId", Args(v, NoValue, FALSE, EmptyTuple)>> : v \in PyValues}
    \cup {<<"Query", Args(v, NoValue, FALSE, EmptyTuple)>> : v \in PyValues}
    \cup {<<"Citation", Args(t, c, FALSE, EmptyTuple)>> :
            t \in AnswerTexts, c \in AnswerTexts}
    \cup {<<"Answer", Args(t, NoValue, FALSE, EmptyTuple)>> : t \in AnswerTexts}
    \cup {<<"Answer", Args(t, NoValue, TRUE, c)>> :
            t \in AnswerTexts, c \in CitationArgs}

ValueInit ==
    /\ vo_pc = "construct"
    /\ \E call \in ConstructorCalls : vo_class = call[1] /\ vo_args = call[2]
    /\ vo_obj = NoObject
    /\ vo_raised = Ok
    /\ vo_str = NoValue

ValueIdle ==
    /\ vo_pc = Idle
    /\ vo_class = Idle
    /\ vo_args = Args(NoValue, NoValue, FALSE, EmptyTuple)
    /\ vo_obj = NoObject
    /\ vo_raised = Ok
    /\ vo_str = NoValue

\* the dataclass __init__ sets the fields, then __post_init__ validates:
\* a ValueError leaves no object behind
Constructed(check, obj) ==
    /\ vo_raised' = check
    /\ vo_obj' = IF check = Ok THEN obj ELSE NoObject
    /\ vo_pc' = IF check = Ok THEN "constructed" ELSE "raised"
    /\ UNCHANGED <<vo_class, vo_args, vo_str>>

ConstructNotebookId ==
    /\ vo_pc = "construct" /\ vo_class = "NotebookId"
    /\ Constructed(NotebookId__post_init__(vo_args.a1),
                   Object("NotebookId", vo_args.a1, NoValue, EmptyTuple))
    /\ UNCHANGED notValue

ConstructQuery ==
    /\ vo_pc = "construct" /\ vo_class = "Query"
    /\ Constructed(Query__post_init__(vo_args.a1),
                   Object("Query", vo_args.a1, NoValue, EmptyTuple))
    /\ UNCHANGED notValue

ConstructCitation ==
    /\ vo_pc = "construct" /\ vo_class = "Citation"
    /\ Constructed(Citation__post_init__(vo_args.a1, vo_args.a2),
                   Object("Citation", vo_args.a1, vo_args.a2, EmptyTuple))
    /\ UNCHANGED notValue

\* citations is the default () unless the argument is given
ConstructAnswer ==
    /\ vo_pc = "construct" /\ vo_class = "Answer"
    /\ LET citations == IF vo_args.given THEN vo_args.citations ELSE EmptyTuple
       IN  Constructed(Answer__post_init__(vo_args.a1, citations),
                       Object("Answer", vo_args.a1, NoValue, citations))
    /\ UNCHANGED notValue

\* __str__ of NotebookId (line 19-21), Query (19-21) and Answer (38-40):
\* the field value, text or answer_text
Str(obj) == obj.f1

CallStr ==
    /\ vo_pc = "constructed"
    /\ vo_class \in {"NotebookId", "Query", "Answer"}
    /\ vo_str' = Str(vo_obj)
    /\ vo_pc' = "str"
    /\ UNCHANGED <<vo_class, vo_args, vo_obj, vo_raised>>
    /\ UNCHANGED notValue

ValueNext ==
    \/ ConstructNotebookId
    \/ ConstructQuery
    \/ ConstructCitation
    \/ ConstructAnswer
    \/ CallStr

(***************************************************************************)
(* Properties of the value objects.                                        *)
(***************************************************************************)
\* C9: for every non-empty string s, Query(s).text = s and str(Query(s)) = s;
\* Query("") raises the ValueError and leaves no Query object.
C9_QueryKeepsText ==
    (vo_class = "Query" /\ IsStr(vo_args.a1) /\ vo_pc # "construct") =>
        IF vo_args.a1.val # ""
        THEN /\ vo_pc \in {"constructed", "str"}
             /\ vo_obj.cls = "Query"
             /\ vo_obj.f1 = vo_args.a1
             /\ vo_pc = "str" => vo_str = vo_args.a1
        ELSE /\ vo_pc = "raised"
             /\ vo_raised # Ok
             /\ vo_obj = NoObject

C9_Witness ==
    /\ vo_class = "Query"
    /\ vo_args.a1 = PyStr(" ")
    /\ vo_pc = "str"
    /\ vo_str = PyStr(" ")

\* C27: constructing a NotebookId or a Query with a value that is no
\* string raises the ValueError that says the value must be a string, and
\* no NotebookId or Query holds a value that is no string.
C27_NonStringRejectedAsNonString ==
    /\ (vo_class \in {"NotebookId", "Query"} /\ vo_pc # "construct"
           /\ ~IsStr(vo_args.a1)) =>
          /\ vo_pc = "raised"
          /\ vo_raised = vo_class \o " must be a string"
          /\ vo_obj = NoObject
    /\ vo_obj.cls \in {"NotebookId", "Query"} => IsStr(vo_obj.f1)

\* the part of C27 that is about the objects alone
C27_NoNonStringObject ==
    /\ (vo_class \in {"NotebookId", "Query"} /\ vo_pc # "construct"
           /\ ~IsStr(vo_args.a1)) =>
          /\ vo_pc = "raised"
          /\ vo_raised # Ok
          /\ vo_obj = NoObject
    /\ vo_obj.cls \in {"NotebookId", "Query"} => IsStr(vo_obj.f1)

\* C10: an Answer built with only answer_text has citations = (); a
\* citations argument that is not a tuple, or a tuple with an element that
\* is no Citation, raises the ValueError; so every Answer that exists holds
\* a tuple of Citation objects.
C10_AnswerCitationsTuple ==
    (vo_class = "Answer" /\ vo_pc # "construct") =>
        /\ (~vo_args.given /\ IsStr(vo_args.a1)) =>
              vo_obj.cls = "Answer" /\ vo_obj.citations = EmptyTuple
        /\ (vo_args.given /\
              (vo_args.citations.type # "tuple"
                 \/ \E i \in 1..Len(vo_args.citations.elems) :
                       vo_args.citations.elems[i] # "Citation")) =>
              /\ vo_pc = "raised"
              /\ vo_raised # Ok
              /\ vo_obj = NoObject
        /\ vo_obj # NoObject =>
              /\ vo_obj.citations.type = "tuple"
              /\ \A i \in 1..Len(vo_obj.citations.elems) :
                    vo_obj.citations.elems[i] = "Citation"

C10_Witness ==
    /\ vo_class = "Answer"
    /\ vo_pc = "raised"
    /\ vo_args.a1 = PyStr("x")
    /\ vo_args.given
    /\ vo_args.citations = Container("list", <<"Citation">>)
    /\ vo_raised = "citations must be a tuple"

(***************************************************************************)
(* ----------------------------------------------------------------------- *)
(* The entity Notebook: domain/entities/notebook.py                        *)
(* ----------------------------------------------------------------------- *)
(***************************************************************************)
Uri1 == PyStr("gs://bucket/doc1.pdf")
Uri2 == PyStr("gs://bucket/doc2.pdf")
Uris == {Uri1, Uri2}

\* what a caller can hand over as a source: a URI or a value that is no str
SourceValues == Uris \cup {PyValue("int", "123")}

\* the argument sources: a list, or another container
SourcesArgs ==
    {Container(t, e) : t \in {"list", "tuple"},
                       e \in SeqsUpTo(SourceValues, MaxSources)}

DisplayNames == {PyStr("test notebook"), PyStr(""), PyNone}

\* Notebook.__post_init__, lines 18-28
Notebook__post_init__(display_name, sources) ==
    IF ~IsStr(display_name) THEN "display_name must be a string"
    ELSE IF ~PyTruthy(display_name) THEN "display_name must not be the empty string"
    ELSE IF sources.type # "list" THEN "sources must be a list"
    ELSE IF \E i \in 1..Len(sources.elems) : ~IsStr(sources.elems[i])
    THEN "the elements of sources must be strings"
    ELSE Ok

\* source_uri in self.sources
In(x, list) == \E i \in 1..Len(list) : list[i] = x

\* list.count(x)
RECURSIVE Count(_, _)
Count(list, x) ==
    IF list = <<>> THEN 0
    ELSE (IF Head(list) = x THEN 1 ELSE 0) + Count(Tail(list), x)

\* a slip that leaves out the membership test
AppendAlways(sources, source_uri) == Append(sources, source_uri)

\* a slip that puts a new URI in front
InsertFirst(sources, source_uri) ==
    IF ~In(source_uri, sources) THEN <<source_uri>> \o sources ELSE sources

\* lines 38-39: sources after add_source of a str
add_source(sources, source_uri) ==
    IF ~In(source_uri, sources) THEN Append(sources, source_uri) ELSE sources

NotebookInit ==
    /\ nb_pc = "construct"
    /\ nb_args \in [display_name : DisplayNames, sources : SourcesArgs]
    /\ nb_display_name = NoValue
    /\ nb_sources = <<>>
    /\ nb_calls = <<>>
    /\ nb_raised = Ok

NotebookIdle ==
    /\ nb_pc = Idle
    /\ nb_args = [display_name |-> NoValue, sources |-> Container("list", <<>>)]
    /\ nb_display_name = NoValue
    /\ nb_sources = <<>>
    /\ nb_calls = <<>>
    /\ nb_raised = Ok

\* Notebook(notebook_id, display_name, sources)
ConstructNotebook ==
    /\ nb_pc = "construct"
    /\ LET check == Notebook__post_init__(nb_args.display_name, nb_args.sources)
       IN  /\ nb_raised' = check
           /\ IF check = Ok
              THEN /\ nb_pc' = "live"
                   /\ nb_display_name' = nb_args.display_name
                   /\ nb_sources' = nb_args.sources.elems
              ELSE /\ nb_pc' = "raised"
                   /\ UNCHANGED <<nb_display_name, nb_sources>>
    /\ UNCHANGED <<nb_args, nb_calls>>
    /\ UNCHANGED notNotebook

\* notebook.add_source(source_uri), lines 30-39
AddSource ==
    /\ nb_pc = "live"
    /\ Len(nb_calls) < MaxAdds
    /\ \E source_uri \in SourceValues :
        /\ nb_calls' = Append(nb_calls, source_uri)
        /\ IF ~IsStr(source_uri)
           THEN /\ nb_raised' = "source_uri must be a string"
                /\ nb_sources' = nb_sources
           ELSE /\ nb_raised' = Ok
                /\ nb_sources' = add_source(nb_sources, source_uri)
    /\ UNCHANGED <<nb_pc, nb_args, nb_display_name>>
    /\ UNCHANGED notNotebook

NotebookNext ==
    \/ ConstructNotebook
    \/ AddSource

(***************************************************************************)
(* Properties of the entity Notebook.                                      *)
(***************************************************************************)
\* add_source(u) has been called at least twice on the notebook
AddedTwice(u) == Count(nb_calls, u) >= 2

\* C8 as stated: for all notebooks N and any URI u, after add_source(u) is
\* called twice on N, N.sources.count(u) = 1.
C8_IdempotentOnAnyNotebook ==
    \A u \in Uris :
        (nb_pc = "live" /\ AddedTwice(u)) => Count(nb_sources, u) = 1

\* C8 as amended: for every notebook N constructed with sources that hold u
\* at most once, after add_source(u) is called twice on N,
\* N.sources.count(u) = 1.
C8_IdempotentAdd ==
    \A u \in Uris :
        (nb_pc = "live" /\ AddedTwice(u)
            /\ Count(nb_args.sources.elems, u) <= 1) =>
                Count(nb_sources, u) = 1

C8_Witness ==
    /\ nb_pc = "live"
    /\ nb_args.sources.elems = <<Uri2>>
    /\ nb_calls = <<Uri1, Uri1>>
    /\ nb_sources = <<Uri2, Uri1>>

DuplicateFree(list) ==
    \A i \in 1..Len(list) : \A j \in 1..Len(list) : list[i] = list[j] => i = j

ConstructedDuplicateFree ==
    nb_pc = "live" /\ DuplicateFree(nb_args.sources.elems)

\* what one call of add_source does to sources
AddSourceStep ==
    (ConstructedDuplicateFree /\ nb_calls' # nb_calls) =>
        LET source_uri == nb_calls'[Len(nb_calls')]
        IN  IF IsStr(source_uri)
            THEN /\ \/ nb_sources' = nb_sources
                    \/ nb_sources' = Append(nb_sources, source_uri)
                 /\ nb_raised' = Ok
            ELSE /\ nb_sources' = nb_sources
                 /\ nb_raised' # Ok

\* C28: on a Notebook constructed with duplicate-free sources, after any
\* sequence of add_source calls sources holds no URI twice and only
\* strings; each call appends the URI at the end or changes nothing, and a
\* call with a value that is no string raises and leaves sources as they
\* were.
C28_SourcesStayDuplicateFree ==
    /\ [](ConstructedDuplicateFree =>
            /\ DuplicateFree(nb_sources)
            /\ \A i \in 1..Len(nb_sources) : IsStr(nb_sources[i]))
    /\ [][AddSourceStep]_vars

C28_Witness ==
    /\ nb_pc = "live"
    /\ nb_args.sources.elems = <<Uri1>>
    /\ nb_calls = <<Uri2, PyValue("int", "123"), Uri2>>
    /\ nb_sources = <<Uri1, Uri2>>

(***************************************************************************)
(* ----------------------------------------------------------------------- *)
(* Credential loading: _load_credentials of                                *)
(* services/vertex_ai_search_service.py, with the getters of env_config.py *)
(* ----------------------------------------------------------------------- *)
(***************************************************************************)
\* The value of an environment variable: NoneVal when it is not set.
\* The texts of GCP_SERVICE_ACCOUNT_KEY_JSON: empty, the JSON texts {} and
\* of two key objects, and a text that is no JSON.
KeyJsonTexts ==
    {NoneVal, "", "{}", "{key-1}", "{key-2}", "not json"}

KeyPathTexts == {NoneVal, "", "/keys/sa.json", "sa.json"}

\* a parsed key: the kind of the value and the object's content
KeyInfo(kind, content) == [kind |-> kind, content |-> content]
NoKeyInfo == KeyInfo("None", "")

\* json.loads(key_json) for the texts above; "error" is JSONDecodeError
KeyJsonLoads(text) ==
    CASE text = "{}" -> KeyInfo("dict", "")
      [] text \in {"{key-1}", "{key-2}"} -> KeyInfo("dict", text)
      [] OTHER -> KeyInfo("error", "")

\* get_service_account_key_info, env_config.py lines 114-132; kind "error"
\* stands for the ValueError raised on a JSONDecodeError
get_service_account_key_info(text) ==
    IF Truthy(text) THEN KeyJsonLoads(text) ELSE NoKeyInfo

\* bool(key_info): None and the empty dict are falsy
KeyInfoTruthy(info) == info.kind = "dict" /\ info.content # ""

\* a slip that tests the file path first
PathFirst(info, path) == ~Truthy(path) /\ KeyInfoTruthy(info)

\* line 86: the branch of the inline key is taken
UseKeyInfo(info, path) == KeyInfoTruthy(info)

Credentials(from, arg) == [from |-> from, arg |-> arg]
NoCredentials == Credentials("none", "")

NoCredError == [cls |-> "none", msg |-> ""]
CredError(cls, msg) == [cls |-> cls, msg |-> msg]

\* what the credential builders of google.oauth2 raise on a bad key
BuilderErrors == {CredError("ValueError", "malformed service account key")}

CredInit ==
    /\ lc_pc = "get_key_info"
    /\ key_json \in KeyJsonTexts
    /\ key_path_env \in KeyPathTexts
    /\ file_exists \in BOOLEAN
    /\ key_info = NoKeyInfo
    /\ key_path = NoneVal
    /\ cred_log = <<>>
    /\ lc_result = NoCredentials
    /\ lc_raised = NoCredError

CredIdle ==
    /\ lc_pc = Idle
    /\ key_json = NoneVal
    /\ key_path_env = NoneVal
    /\ file_exists = FALSE
    /\ key_info = NoKeyInfo
    /\ key_path = NoneVal
    /\ cred_log = <<>>
    /\ lc_result = NoCredentials
    /\ lc_raised = NoCredError

CredRaise(e) ==
    /\ lc_raised' = e
    /\ lc_pc' = "raised"
    /\ lc_result' = lc_result

CredReturn(c) ==
    /\ lc_result' = c
    /\ lc_pc' = "returned"
    /\ lc_raised' = lc_raised

\* lines 85-86
GetKeyInfo ==
    /\ lc_pc = "get_key_info"
    /\ cred_log' = Append(cred_log, "get_service_account_key_info")
    /\ LET info == get_service_account_key_info(key_json)
       IN  IF info.kind = "error"
           THEN /\ CredRaise(CredError("ValueError",
                                       "GCP_SERVICE_ACCOUNT_KEY_JSON is malformed"))
                /\ key_info' = key_info
           ELSE /\ key_info' = info
                /\ lc_pc' = IF UseKeyInfo(info, key_path_env)
                            THEN "from_info" ELSE "get_key_path"
                /\ UNCHANGED <<lc_result, lc_raised>>
    /\ UNCHANGED <<key_json, key_path_env, file_exists, key_path>>
    /\ UNCHANGED notCred

\* line 87
FromServiceAccountInfo ==
    /\ lc_pc = "from_info"
    /\ cred_log' = Append(cred_log, "from_service_account_info")
    /\ \/ CredReturn(Credentials("info", key_info.content))
       \/ \E e \in BuilderErrors : CredRaise(e)
    /\ UNCHANGED <<key_json, key_path_env, file_exists, key_info, key_path>>
    /\ UNCHANGED notCred

\* lines 90-91 and, with no path, 101-104
GetKeyPath ==
    /\ lc_pc = "get_key_path"
    /\ cred_log' = Append(cred_log, "get_service_account_key_path")
    /\ key_path' = key_path_env
    /\ IF Truthy(key_path_env)
       THEN lc_pc' = "exists" /\ UNCHANGED <<lc_result, lc_raised>>
       ELSE CredRaise(CredError("ValueError",
                                "service account credentials are not set"))
    /\ UNCHANGED <<key_json, key_path_env, file_exists, key_info>>
    /\ UNCHANGED notCred

\* lines 92-96
CheckExists ==
    /\ lc_pc = "exists"
    /\ cred_log' = Append(cred_log, "exists")
    /\ IF file_exists
       THEN lc_pc' = "from_file" /\ UNCHANGED <<lc_result, lc_raised>>
       ELSE CredRaise(CredError("ValueError",
                                "service account key file not found"))
    /\ UNCHANGED <<key_json, key_path_env, file_exists, key_info, key_path>>
    /\ UNCHANGED notCred

\* lines 97-99
FromServiceAccountFile ==
    /\ lc_pc = "from_file"
    /\ cred_log' = Append(cred_log, "from_service_account_file")
    /\ \/ CredReturn(Credentials("file", key_path))
       \/ \E e \in BuilderErrors : CredRaise(e)
    /\ UNCHANGED <<key_json, key_path_env, file_exists, key_info, key_path>>
    /\ UNCHANGED notCred

CredNext ==
    \/ GetKeyInfo
    \/ FromServiceAccountInfo
    \/ GetKeyPath
    \/ CheckExists
    \/ FromServiceAccountFile

(***************************************************************************)
(* Properties of credential loading.                                       *)
(***************************************************************************)
\* an inline key is present: the variable holds a key object
InlinePresent == key_json \in {"{key-1}", "{key-2}"}

\* no inline key: the variable is not set, empty, or holds the empty object
InlineAbsent == key_json \in {NoneVal, "", "{}"}

PathPresent == key_path_env \notin {NoneVal, ""}

CredDone == lc_pc \in {"returned", "raised"}

Logged(call) == \E i \in 1..Len(cred_log) : cred_log[i] = call

\* C7: credential loading follows a fixed priority. With an inline key
\* present the credentials are built from it and the file path is never
\* consulted; otherwise, with a file path present, a missing file raises an
\* error and an existing file is used; otherwise the error saying that
\* neither source was provided is raised. No branch is retried: no call is
\* made twice.
C7_CredentialPriority ==
    /\ InlinePresent =>
          /\ ~Logged("get_service_account_key_path")
          /\ ~Logged("exists")
          /\ ~Logged("from_service_account_file")
          /\ CredDone =>
                /\ cred_log = <<"get_service_account_key_info",
                                "from_service_account_info">>
                /\ lc_pc = "returned" =>
                      lc_result = Credentials("info", key_json)
                /\ lc_pc = "raised" => lc_raised \in BuilderErrors
    /\ (InlineAbsent /\ PathPresent /\ CredDone) =>
          /\ ~Logged("from_service_account_info")
          /\ IF file_exists
             THEN /\ cred_log = <<"get_service_account_key_info",
                                  "get_service_account_key_path", "exists",
                                  "from_service_account_file">>
                  /\ lc_pc = "returned" =>
                        lc_result = Credentials("file", key_path_env)
                  /\ lc_pc = "raised" => lc_raised \in BuilderErrors
             ELSE /\ lc_pc = "raised"
                  /\ lc_raised = CredError("ValueError",
                                           "service account key file not found")
                  /\ ~Logged("from_service_account_file")
    /\ (InlineAbsent /\ ~PathPresent /\ CredDone) =>
          /\ lc_pc = "raised"
          /\ lc_raised = CredError("ValueError",
                                   "service account credentials are not set")
          /\ ~Logged("from_service_account_info")
          /\ ~Logged("exists")
          /\ ~Logged("from_service_account_file")
    /\ \A i, j \in 1..Len(cred_log) : cred_log[i] = cred_log[j] => i = j

C7_Witness ==
    /\ key_json = "{key-1}"
    /\ key_path_env = "/keys/sa.json"
    /\ file_exists
    /\ lc_pc = "returned"
    /\ lc_result = Credentials("info", "{key-1}")

(***************************************************************************)
(* ----------------------------------------------------------------------- *)
(* NotebookService (application/services/notebook_service.py) over         *)
(* NotebookRepositoryImpl (infrastructure/repositories/                    *)
(* notebook_repository_impl.py) and NotebookLMClient                       *)
(* (infrastructure/external/notebooklm_client.py)                          *)
(* ----------------------------------------------------------------------- *)
(***************************************************************************)
ServiceOps == {"create_notebook", "add_sources", "ask"}

Request(notebook_id, display_name, query_text, source_uris) ==
    [notebook_id |-> notebook_id, display_name |-> display_name,
     query |-> query_text, source_uris |-> source_uris]

\* the requests of each method; a field the method does not read is NoValue
Requests(op) ==
    CASE op = "create_notebook" ->
            {Request(id, n, NoValue, <<>>) :
                id \in PyValues, n \in {PyStr("test notebook"), PyStr("")}}
      [] op = "add_sources" ->
            {Request(id, NoValue, NoValue, u) :
                id \in PyValues, u \in {<<>>, <<Uri1, Uri2>>}}
      [] op = "ask" ->
            {Request(id, NoValue, q, <<>>) : id \in PyValues, q \in PyValues}

SvcError(cls, msg) == [cls |-> cls, msg |-> msg]
NoSvcError == SvcError("none", "")

\* what the backend raises
BackendRpcErrors == {SvcError("NotFound", ""), SvcError("PermissionDenied", "")}

\* a repository operation, and an RPC of the backend
RepoCall(op, notebook_id, arg) ==
    [op |-> op, notebook_id |-> notebook_id, arg |-> arg]
Rpc(name, notebook_id, arg) ==
    [rpc |-> name, notebook_id |-> notebook_id, arg |-> arg]

\* the RPC of each operation: client lines 99, 123, 158
RpcName(op) ==
    CASE op = "create_notebook" -> "create_notebook"
      [] op = "add_sources" -> "import_notebook_sources"
      [] op = "ask" -> "answer"

\* the argument handed down besides the notebook id: repository lines
\* 48-51, 70-73, 89-93
CallArg(op, req, query_obj) ==
    CASE op = "create_notebook" -> <<req.display_name>>
      [] op = "add_sources" -> req.source_uris
      [] op = "ask" -> <<Str(query_obj)>>

BackendResponse(kind, answer_text, citations) ==
    [kind |-> kind, answer_text |-> answer_text, citations |-> citations]
NoBackendResponse == BackendResponse("none", NoValue, <<>>)

CitationOf(source_title, content) ==
    [source_title |-> source_title, content |-> content]

\* response.answer of the answer RPC: its text and its citations
AnswerResponses ==
    {BackendResponse("answer", PyStr("the answer"), c) :
        c \in {<<>>, <<CitationOf(PyStr("doc1"), PyStr("a passage"))>>,
               <<CitationOf(PyStr("doc1"), PyStr("a passage")),
                 CitationOf(PyStr("doc2"), PyStr(""))>>}}

Dto(kind, f1, f2, citations) ==
    [kind |-> kind, f1 |-> f1, f2 |-> f2, citations |-> citations]
NoDto == Dto("none", NoValue, NoValue, <<>>)
NoneDto == Dto("None", NoValue, NoValue, <<>>)

ServiceInit ==
    /\ svc_pc = "notebook_id"
    /\ svc_op \in ServiceOps
    /\ svc_request \in Requests(svc_op)
    /\ svc_notebook_id = NoObject
    /\ svc_query = NoObject
    /\ repo_calls = <<>>
    /\ backend_calls = <<>>
    /\ svc_operation = "none"
    /\ svc_response = NoBackendResponse
    /\ svc_raised = NoSvcError
    /\ svc_return = NoDto

ServiceIdle ==
    /\ svc_pc = Idle
    /\ svc_op = Idle
    /\ svc_request = Request(NoValue, NoValue, NoValue, <<>>)
    /\ svc_notebook_id = NoObject
    /\ svc_query = NoObject
    /\ repo_calls = <<>>
    /\ backend_calls = <<>>
    /\ svc_operation = "none"
    /\ svc_response = NoBackendResponse
    /\ svc_raised = NoSvcError
    /\ svc_return = NoDto

SvcRaise(e) ==
    /\ svc_raised' = e
    /\ svc_pc' = "raised"
    /\ svc_return' = svc_return

SvcReturn(dto) ==
    /\ svc_return' = dto
    /\ svc_pc' = "returned"
    /\ svc_raised' = svc_raised

\* NotebookId(request.notebook_id): service lines 43, 63, 81
MakeNotebookId ==
    /\ svc_pc = "notebook_id"
    /\ LET check == NotebookId__post_init__(svc_request.notebook_id)
       IN  IF check = Ok
           THEN /\ svc_notebook_id' =
                      Object("NotebookId", svc_request.notebook_id, NoValue,
                             EmptyTuple)
                /\ svc_pc' = IF svc_op = "ask" THEN "query" ELSE "repository"
                /\ UNCHANGED <<svc_raised, svc_return>>
           ELSE /\ SvcRaise(SvcError("ValueError", check))
                /\ svc_notebook_id' = svc_notebook_id
    /\ UNCHANGED <<svc_op, svc_request, svc_query, repo_calls, backend_calls,
                   svc_operation, svc_response>>
    /\ UNCHANGED notService

\* Query(request.query): service line 82
MakeQuery ==
    /\ svc_pc = "query"
    /\ LET check == Query__post_init__(svc_request.query)
       IN  IF check = Ok
           THEN /\ svc_query' =
                      Object("Query", svc_request.query, NoValue, EmptyTuple)
                /\ svc_pc' = "repository"
                /\ UNCHANGED <<svc_raised, svc_return>>
           ELSE /\ SvcRaise(SvcError("ValueError", check))
                /\ svc_query' = svc_query
    /\ UNCHANGED <<svc_op, svc_request, svc_notebook_id, repo_calls,
                   backend_calls, svc_operation, svc_response>>
    /\ UNCHANGED notService

\* self.repository.create / add_sources / ask (service lines 44, 64, 84),
\* which calls the client with str(notebook_id) (repository lines 48, 70,
\* 89), which sends the RPC (client lines 99, 123, 158)
CallRepository ==
    /\ svc_pc = "repository"
    /\ LET arg == CallArg(svc_op, svc_request, svc_query)
       IN  /\ repo_calls' = Append(repo_calls,
                                   RepoCall(svc_op, svc_notebook_id, arg))
           /\ backend_calls' = Append(backend_calls,
                                      Rpc(RpcName(svc_op), Str(svc_notebook_id),
                                          arg))
    /\ svc_pc' = "rpc"
    /\ UNCHANGED <<svc_op, svc_request, svc_notebook_id, svc_query,
                   svc_operation, svc_response, svc_raised, svc_return>>
    /\ UNCHANGED notService

\* a slip that returns once the import is started
ReturnWithoutWaiting == "returned"

\* client line 124, operation.result(): where add_sources goes on once
\* import_notebook_sources has handed back the operation
AfterImportStarted == "operation"

\* the backend answers the RPC, or the RPC raises
BackendReply ==
    /\ svc_pc = "rpc"
    /\ \/ /\ svc_op = "create_notebook"
          /\ svc_response' = BackendResponse("notebook", NoValue, <<>>)
          /\ svc_pc' = "build_notebook"
          /\ UNCHANGED <<svc_operation, svc_raised, svc_return>>
       \/ /\ svc_op = "add_sources"
          /\ svc_operation' = "running"
          /\ svc_pc' = AfterImportStarted
          /\ UNCHANGED <<svc_response, svc_raised, svc_return>>
       \/ /\ svc_op = "ask"
          /\ svc_response' \in AnswerResponses
          /\ svc_pc' = "build_answer"
          /\ UNCHANGED <<svc_operation, svc_raised, svc_return>>
       \/ /\ \E e \in BackendRpcErrors : SvcRaise(e)
          /\ UNCHANGED <<svc_operation, svc_response>>
    /\ UNCHANGED <<svc_op, svc_request, svc_notebook_id, svc_query, repo_calls,
                   backend_calls>>
    /\ UNCHANGED notService

\* operation.result(): client line 124
OperationResult ==
    /\ svc_pc = "operation"
    /\ \/ svc_operation' = "done" /\ SvcReturn(NoneDto)
       \/ /\ svc_operation' = "failed"
          /\ \E e \in BackendRpcErrors : SvcRaise(e)
    /\ UNCHANGED <<svc_op, svc_request, svc_notebook_id, svc_query, repo_calls,
                   backend_calls, svc_response>>
    /\ UNCHANGED notService

\* Notebook(notebook_id, display_name, sources=[]) (repository lines 53-57)
\* and CreateNotebookResponse (service lines 49-52)
BuildNotebook ==
    /\ svc_pc = "build_notebook"
    /\ LET check == Notebook__post_init__(svc_request.display_name,
                                          Container("list", <<>>))
       IN  IF check = Ok
           THEN SvcReturn(Dto("CreateNotebookResponse", Str(svc_notebook_id),
                              svc_request.display_name, <<>>))
           ELSE SvcRaise(SvcError("ValueError", check))
    /\ UNCHANGED <<svc_op, svc_request, svc_notebook_id, svc_query, repo_calls,
                   backend_calls, svc_operation, svc_response>>
    /\ UNCHANGED notService

\* the citations of the response as Citation objects and the Answer
\* (repository lines 96-108), then AskResponse (service lines 89-98)
BuildAnswer ==
    /\ svc_pc = "build_answer"
    /\ LET cs == svc_response.citations
           bad == {i \in 1..Len(cs) :
                     Citation__post_init__(cs[i].source_title, cs[i].content) # Ok}
           check == Answer__post_init__(svc_response.answer_text,
                        Container("tuple", [i \in 1..Len(cs) |-> "Citation"]))
       IN  IF bad # {}
           THEN SvcRaise(SvcError("ValueError",
                    LET i == CHOOSE k \in bad : \A m \in bad : k <= m
                    IN  Citation__post_init__(cs[i].source_title, cs[i].content)))
           ELSE IF check # Ok
           THEN SvcRaise(SvcError("ValueError", check))
           ELSE SvcReturn(Dto("AskResponse", svc_response.answer_text, NoValue, cs))
    /\ UNCHANGED <<svc_op, svc_request, svc_notebook_id, svc_query, repo_calls,
                   backend_calls, svc_operation, svc_response>>
    /\ UNCHANGED notService

ServiceNext ==
    \/ MakeNotebookId
    \/ MakeQuery
    \/ CallRepository
    \/ BackendReply
    \/ OperationResult
    \/ BuildNotebook
    \/ BuildAnswer

(***************************************************************************)
(* Properties of the notebook service.                                     *)
(***************************************************************************)
\* the value is empty or no string
InvalidValue(v) == ~IsStr(v) \/ v.val = ""

InvalidRequest ==
    \/ InvalidValue(svc_request.notebook_id)
    \/ svc_op = "ask" /\ InvalidValue(svc_request.query)

\* C6: in create_notebook, add_sources and ask, an empty or non-string
\* notebook id, and in ask an empty or non-string query, raise the
\* ValueError before the repository is called: in every run with such a
\* value no repository operation is invoked and no RPC is sent.
C6_ValidationBeforeRepository ==
    (svc_pc # Idle /\ InvalidRequest) =>
        /\ repo_calls = <<>>
        /\ backend_calls = <<>>
        /\ svc_pc \in {"notebook_id", "query", "raised"}
        /\ InvalidValue(svc_request.notebook_id) =>
              svc_pc \in {"notebook_id", "raised"}
        /\ svc_pc = "raised" => svc_raised.cls = "ValueError"

C6_Witness ==
    /\ svc_op = "ask"
    /\ svc_request.notebook_id = PyStr("nb-1")
    /\ svc_request.query = PyValue("int", "7")
    /\ svc_pc = "raised"
    /\ svc_raised.cls = "ValueError"
    /\ repo_calls = <<>>

\* C25: on the create path an empty or non-string display name raises
\* the ValueError before the backend is called: in every run with such a
\* name no create-notebook RPC is sent.
C25_CreateValidatedBeforeBackend ==
    (svc_op = "create_notebook" /\ InvalidValue(svc_request.display_name)) =>
        /\ backend_calls = <<>>
        /\ svc_pc \in {"notebook_id", "repository", "raised"}
        /\ svc_pc = "raised" => svc_raised.cls = "ValueError"

ImportRequested ==
    \E i \in 1..Len(backend_calls) :
        backend_calls[i].rpc = "import_notebook_sources"

\* C17: add_sources returns only after the import operation has finished:
\* while the operation runs the call has neither returned nor raised, a
\* return happens only with the operation done and after the import was
\* requested, and a failed operation raises its error to the caller.
C17_ReturnsAfterOperation ==
    svc_op = "add_sources" =>
        /\ svc_operation = "running" => svc_pc = "operation"
        /\ svc_pc = "returned" =>
              /\ svc_operation = "done"
              /\ ImportRequested
              /\ svc_return = NoneDto
        /\ svc_operation = "failed" =>
              /\ svc_pc = "raised"
              /\ svc_raised \in BackendRpcErrors

C17_Witness ==
    /\ svc_op = "add_sources"
    /\ svc_pc = "returned"
    /\ svc_operation = "done"
    /\ ImportRequested

(***************************************************************************)
(* ----------------------------------------------------------------------- *)
(* search_and_answer and _parse_response of                                *)
(* services/vertex_ai_search_service.py                                    *)
(* ----------------------------------------------------------------------- *)
(***************************************************************************)
\* response.summary: absent (None), or a summary with its summary_text
Summary(present, text) == [present |-> present, summary_text |-> text]

Summaries ==
    {Summary(FALSE, NoneVal), Summary(TRUE, NoneVal), Summary(TRUE, ""),
     Summary(TRUE, "the answer")}

AnswerResponse(summary, results) == [summary |-> summary, results |-> results]
NoAnswerResponse == AnswerResponse(Summary(FALSE, Idle), <<>>)

SearchResult(summary, citations) == [summary |-> summary, citations |-> citations]
NoSearchResult == SearchResult(Idle, <<>>)

\* a slip that takes the text of any summary
SummaryTextOfAny(summary) ==
    IF summary.present THEN summary.summary_text ELSE ""

\* lines 365-367
SummaryText(summary) ==
    IF summary.present /\ Truthy(summary.summary_text)
    THEN summary.summary_text ELSE ""

\* a slip that cites only the documents with a title
CitationsOfTitled(r) ==
    IF r.document /\ r.data /\ Truthy(GetOr(r.title, ""))
    THEN <<[title |-> r.title, url |-> GetOr(r.link, "")]>>
    ELSE <<>>

\* lines 372-385: the citation of one result, if any
CitationsOf(r) ==
    IF r.document /\ r.data
    THEN LET title == GetOr(r.title, "")
             url == GetOr(r.link, "")
         IN  IF Truthy(title) \/ Truthy(url)
             THEN <<[title |-> IF Truthy(title) THEN title ELSE UntitledTitle,
                     url |-> IF Truthy(url) THEN url ELSE ""]>>
             ELSE <<>>
    ELSE <<>>

RECURSIVE SearchCitations(_)
SearchCitations(results) ==
    IF results = <<>> THEN <<>>
    ELSE CitationsOf(Head(results)) \o SearchCitations(Tail(results))

\* lines 355-387
_parse_response(resp) ==
    SearchResult(SummaryText(resp.summary), SearchCitations(resp.results))

AnswerQueries == {"minutes", "what was decided?"}

\* the results of a backend response as _parse_response reads them: no
\* document, empty struct data, and struct data with or without the keys
\* title and link (an empty string is a value the key can hold)
AnswerResultShapes ==
    {Result(FALSE, FALSE, NoneVal, NoneVal, <<>>, <<>>, <<>>),
     Result(TRUE, FALSE, NoneVal, NoneVal, <<>>, <<>>, <<>>),
     Result(TRUE, TRUE, "Minutes", "gs://b/minutes.pdf", <<>>, <<>>, <<>>),
     Result(TRUE, TRUE, NoneVal, "gs://b/plan.pdf", <<>>, <<>>, <<>>),
     Result(TRUE, TRUE, "Notes", NoneVal, <<>>, <<>>, <<>>),
     Result(TRUE, TRUE, NoneVal, NoneVal, <<>>, <<>>, <<SrcContent>>),
     Result(TRUE, TRUE, "", "", <<>>, <<>>, <<SrcContent>>)}

AnswerResults == SeqsUpTo(AnswerResultShapes, MaxCitations)

AnswerInit ==
    /\ sa_pc = "search"
    /\ sa_query \in AnswerQueries
    /\ sa_response = NoAnswerResponse
    /\ sa_result = NoSearchResult
    /\ sa_raised = NoError

AnswerIdle ==
    /\ sa_pc = Idle
    /\ sa_query = Idle
    /\ sa_response = NoAnswerResponse
    /\ sa_result = NoSearchResult
    /\ sa_raised = NoError

\* lines 116-144: the request is built and sent; the backend answers or the
\* call raises
AnswerSearch ==
    /\ sa_pc = "search"
    /\ \/ /\ \E s \in Summaries, r \in AnswerResults :
                sa_response' = AnswerResponse(s, r)
          /\ sa_pc' = "parse"
          /\ sa_raised' = sa_raised
       \/ /\ \E e \in BackendErrors(1) : sa_raised' = e
          /\ sa_pc' = "raised"
          /\ sa_response' = sa_response
    /\ UNCHANGED <<sa_query, sa_result>>
    /\ UNCHANGED notAnswer

\* lines 146-161
AnswerParse ==
    /\ sa_pc = "parse"
    /\ sa_result' = _parse_response(sa_response)
    /\ sa_pc' = "returned"
    /\ UNCHANGED <<sa_query, sa_response, sa_raised>>
    /\ UNCHANGED notAnswer

AnswerNext ==
    \/ AnswerSearch
    \/ AnswerParse

(***************************************************************************)
(* Properties of search_and_answer.                                        *)
(***************************************************************************)
\* C11: search_and_answer never returns None as summary: when the response
\* has no summary, or a summary whose text is empty, the result's summary
\* is ""; and with no result documents its citations are [].
C11_SummaryNeverNone ==
    sa_pc = "returned" =>
        /\ sa_result.summary # NoneVal
        /\ (~sa_response.summary.present
              \/ sa_response.summary.summary_text \in {NoneVal, ""}) =>
                 sa_result.summary = ""
        /\ sa_response.results = <<>> => sa_result.citations = <<>>

C11_Witness ==
    /\ sa_pc = "returned"
    /\ sa_response = AnswerResponse(Summary(FALSE, NoneVal), <<>>)
    /\ sa_result = SearchResult("", <<>>)

HasTitle(r) == r.title \notin {NoneVal, ""}
HasLink(r) == r.link \notin {NoneVal, ""}
TitledOrLinked(r) == HasTitle(r) \/ HasLink(r)

\* C21: the citations of search_and_answer are, in backend order, one for
\* each result document that has a title or a link and none for a document
\* that has neither; a document with a link but no title is cited with the
\* placeholder title.
C21_CitationsInBackendOrder ==
    sa_pc = "returned" =>
        LET cited == SelectSeq(sa_response.results, TitledOrLinked)
        IN  /\ Len(sa_result.citations) = Len(cited)
            /\ \A i \in 1..Len(cited) :
                  /\ sa_result.citations[i].url =
                        IF HasLink(cited[i]) THEN cited[i].link ELSE ""
                  /\ sa_result.citations[i].title =
                        IF HasTitle(cited[i]) THEN cited[i].title
                        ELSE UntitledTitle

C21_Witness ==
    /\ sa_pc = "returned"
    /\ Len(sa_response.results) = 2
    /\ ~TitledOrLinked(sa_response.results[1])
    /\ sa_response.results[1].data
    /\ sa_result.citations =
          <<[title |-> UntitledTitle, url |-> "gs://b/plan.pdf"]>>

(***************************************************************************)
(* ----------------------------------------------------------------------- *)
(* call_tool: servers/rag_server.py lines 132-142                          *)
(* ----------------------------------------------------------------------- *)
(***************************************************************************)
\* the names a client can send: the three tools, and names of no tool
ToolNameArgs ==
    {"search_documents", "generate_slide_draft", "generate_diagram",
     "_search_documents", "Search_Documents", "list_tools", ""}

NoHandler == "<no handler>"

\* a slip that sends generate_diagram to the slide handler
DispatchDiagramToSlide(name) ==
    CASE name = "search_documents" -> "_search_documents"
      [] name = "generate_slide_draft" -> "_generate_slide_draft"
      [] name = "generate_diagram" -> "_generate_slide_draft"
      [] OTHER -> NoHandler

\* lines 135-142: the handler of a name, NoHandler for the else branch
Dispatch(name) ==
    CASE name = "search_documents" -> "_search_documents"
      [] name = "generate_slide_draft" -> "_generate_slide_draft"
      [] name = "generate_diagram" -> "_generate_diagram"
      [] OTHER -> NoHandler

Invocation(h, args) == [handler |-> h, arguments |-> args]

\* what a handler returns: a list with one TextContent
HandlerReturns ==
    {<<TextContent(<<"generated text">>)>>,
     <<TextContent(MissingQueryText)>>}

DispatchInit ==
    /\ ct_pc = "call"
    /\ ct_name \in ToolNameArgs
    /\ ct_arguments \in [query : QueryArgs, chart_type : ChartTypeArgs]
    /\ ct_invoked = <<>>
    /\ ct_return = <<>>
    /\ ct_raised = NoException

DispatchIdle ==
    /\ ct_pc = Idle
    /\ ct_name = Idle
    /\ ct_arguments = [query |-> Absent, chart_type |-> Absent]
    /\ ct_invoked = <<>>
    /\ ct_return = <<>>
    /\ ct_raised = NoException

\* lines 135-142: the handler is called with arguments, or ValueError
CallTool ==
    /\ ct_pc = "call"
    /\ LET h == Dispatch(ct_name)
       IN  IF h # NoHandler
           THEN /\ ct_invoked' = Append(ct_invoked, Invocation(h, ct_arguments))
                /\ ct_pc' = "handler"
                /\ ct_raised' = ct_raised
           ELSE /\ ct_raised' = [cls |-> "ValueError",
                                 at |-> "Unknown tool: " \o ct_name]
                /\ ct_pc' = "raised"
                /\ ct_invoked' = ct_invoked
    /\ UNCHANGED <<ct_name, ct_arguments, ct_return>>
    /\ UNCHANGED notDispatch

\* return await handler(arguments): call_tool returns what the handler does
HandlerReturn ==
    /\ ct_pc = "handler"
    /\ ct_return' \in HandlerReturns
    /\ ct_pc' = "returned"
    /\ UNCHANGED <<ct_name, ct_arguments, ct_invoked, ct_raised>>
    /\ UNCHANGED notDispatch

DispatchNext ==
    \/ CallTool
    \/ HandlerReturn

(***************************************************************************)
(* Properties of call_tool.                                                *)
(***************************************************************************)
\* the three tools and the handler of each
OwnHandler ==
    [n \in {"search_documents", "generate_slide_draft", "generate_diagram"} |->
        "_" \o n]

\* C16: call_tool dispatches each of the three tool names to exactly its
\* own handler, once, with the arguments unchanged, and for any other name
\* raises ValueError("Unknown tool: ...") without invoking any handler.
C16_DispatchToOwnHandler ==
    ct_pc \notin {Idle, "call"} =>
        IF ct_name \in DOMAIN OwnHandler
        THEN /\ ct_invoked = <<Invocation(OwnHandler[ct_name], ct_arguments)>>
             /\ ct_raised = NoException
             /\ ct_pc \in {"handler", "returned"}
        ELSE /\ ct_invoked = <<>>
             /\ ct_pc = "raised"
             /\ ct_raised = [cls |-> "ValueError",
                             at |-> "Unknown tool: " \o ct_name]

C16_Witness ==
    /\ ct_name = "generate_diagram"
    /\ ct_arguments = [query |-> "minutes of 1/26", chart_type |-> "sequence"]
    /\ ct_pc = "returned"
    /\ ct_invoked = <<Invocation("_generate_diagram", ct_arguments)>>

(***************************************************************************)
(* ----------------------------------------------------------------------- *)
(* The command-line scripts: main of scripts/generate_slides.py (lines     *)
(* 69-179) and of scripts/generate_infographic.py (lines 98-206)           *)
(* ----------------------------------------------------------------------- *)
(***************************************************************************)
Scripts == {"generate_slides", "generate_infographic"}

\* parse_args: query, --output, --type, --model with their defaults
OutputDefault(script) ==
    IF script = "generate_slides" THEN "output_slides.md" ELSE "output_diagram.md"

ScriptArgs(script) ==
    [query : {"minutes of 1/26"},
     output : {OutputDefault(script), "my.md"},
     type : IF script = "generate_slides" THEN {NoneVal}
            ELSE {"flowchart", "sequence"},
     model : {NoneVal, "gemini-pro"}]

\* the environment: each variable unset, empty or set
Environments ==
    [GCP_PROJECT_ID : {Absent, "", "my-project"},
     ENGINE_ID : {Absent, "", "my-engine"}]

\* get_env(key): os.getenv gives None for a variable that is not set
get_env(env, key) == IF env[key] = Absent THEN NoneVal ELSE env[key]

\* get_gcp_project_id and get_engine_id raise ValueError if not value;
\* get_gcp_location has a default and never raises (lines 79-83, 108-112)
ConfigRaises(env) ==
    \/ ~Truthy(get_env(env, "GCP_PROJECT_ID"))
    \/ ~Truthy(get_env(env, "ENGINE_ID"))

\* args.model if args.model else get_gemini_model()
ModelName(args) == IF Truthy(args.model) THEN args.model ELSE "gemini-2.5-flash"

\* the documents and the summaries a search can give
CliDoc(title, content, url) == [title |-> title, content |-> content, url |-> url]
CliDocs == {CliDoc("minutes", "agenda", "gs://b/m.pdf"), CliDoc("notes", "", "")}
CliSearchResult(summary, docs) == [summary |-> summary, results |-> docs]
NoCliSearchResult == CliSearchResult(NoneVal, <<>>)

\* search_documents gives results (generate_slides line 111),
\* search_and_answer a summary with citations (generate_infographic line 140)
CliSearchResults(script) ==
    IF script = "generate_slides"
    THEN {CliSearchResult(NoneVal, docs) : docs \in SeqsUpTo(CliDocs, MaxResults)}
    ELSE {CliSearchResult(s, docs) :
            s \in {"", "the summary"}, docs \in SeqsUpTo(CliDocs, MaxResults)}

SearchMethod(script) ==
    IF script = "generate_slides" THEN "search_documents" ELSE "search_and_answer"

GenerateMethod(script) ==
    IF script = "generate_slides" THEN "generate_slide_markdown"
    ELSE "generate_infographic_code"

\* a slip that goes on with whatever the search gave
EmptinessIgnored(script, sr) == FALSE

\* generate_slides line 116: not search_result.results;
\* generate_infographic line 145: not search_result.summary
SearchIsEmpty(script, sr) ==
    IF script = "generate_slides" THEN sr.results = <<>> ELSE ~Truthy(sr.summary)

Line(kind, index, text, url) ==
    [kind |-> kind, index |-> index, text |-> text, url |-> url]

\* generate_slides lines 128-135: a heading, then for each document its
\* title, its content if any and its url if any
RECURSIVE SourceParts(_, _)
SourceParts(docs, i) ==
    IF i > Len(docs) THEN <<>>
    ELSE <<Line("document", i, docs[i].title, "")>>
         \o (IF Truthy(docs[i].content)
             THEN <<Line("content", i, docs[i].content, "")>> ELSE <<>>)
         \o (IF Truthy(docs[i].url)
             THEN <<Line("url", i, "", docs[i].url)>> ELSE <<>>)
         \o SourceParts(docs, i + 1)

\* generate_infographic lines 158-160: the summary, then a line for each
\* citation
SourceText(script, sr) ==
    IF script = "generate_slides"
    THEN <<Line("heading", 0, "search results", "")>> \o SourceParts(sr.results, 1)
    ELSE <<Line("summary", 0, sr.summary, "")>>
         \o [i \in 1..Len(sr.results) |->
               Line("citation", i, sr.results[i].title, sr.results[i].url)]

\* what the generation backend gives back: response.text
CliGeneratedTexts == {"", "generated text"}

CliCall(step, method, outcome) ==
    [step |-> step, method |-> method, outcome |-> outcome]

FileWrite(path, text) == [path |-> path, text |-> text]

\* sys.exit(1) after the labelled line is printed
ExitWith(label) ==
    /\ cli_printed' = label
    /\ cli_exit' = <<1>>
    /\ cli_pc' = "exited"

ScriptInit ==
    /\ cli_pc = "config"
    /\ cli_script \in Scripts
    /\ cli_args \in ScriptArgs(cli_script)
    /\ cli_env \in Environments
    /\ cli_model_name = NoneVal
    /\ cli_calls = <<>>
    /\ cli_search_result = NoCliSearchResult
    /\ cli_source_text = <<>>
    /\ cli_generated = NoneVal
    /\ cli_files = <<>>
    /\ cli_printed = NoneVal
    /\ cli_exit = <<>>

ScriptIdle ==
    /\ cli_pc = Idle
    /\ cli_script = Idle
    /\ cli_args = Idle
    /\ cli_env = Idle
    /\ cli_model_name = NoneVal
    /\ cli_calls = <<>>
    /\ cli_search_result = NoCliSearchResult
    /\ cli_source_text = <<>>
    /\ cli_generated = NoneVal
    /\ cli_files = <<>>
    /\ cli_printed = NoneVal
    /\ cli_exit = <<>>

\* lines 79-90 (108-119): the required settings, then the model name
GetConfig ==
    /\ cli_pc = "config"
    /\ IF ConfigRaises(cli_env)
       THEN /\ ExitWith("error: ")
            /\ UNCHANGED cli_model_name
       ELSE /\ cli_model_name' = ModelName(cli_args)
            /\ cli_pc' = "search"
            /\ UNCHANGED <<cli_printed, cli_exit>>
    /\ UNCHANGED <<cli_script, cli_args, cli_env, cli_calls, cli_search_result,
                   cli_source_text, cli_generated, cli_files>>
    /\ UNCHANGED notScript

\* lines 104-114 (134-143): the search service is built and called; any
\* Exception is reported and ends the run
CliSearch ==
    /\ cli_pc = "search"
    /\ \/ /\ cli_search_result' \in CliSearchResults(cli_script)
          /\ cli_calls' = Append(cli_calls,
                 CliCall("search", SearchMethod(cli_script), "returned"))
          /\ cli_pc' = "check"
          /\ UNCHANGED <<cli_printed, cli_exit>>
       \/ /\ cli_calls' = Append(cli_calls,
                 CliCall("search", SearchMethod(cli_script), "raised"))
          /\ ExitWith("search error: ")
          /\ UNCHANGED cli_search_result
    /\ UNCHANGED <<cli_script, cli_args, cli_env, cli_model_name,
                   cli_source_text, cli_generated, cli_files>>
    /\ UNCHANGED notScript

\* lines 116-135 (145-160): an empty result ends the run, otherwise the
\* source text is put together
CheckResult ==
    /\ cli_pc = "check"
    /\ IF SearchIsEmpty(cli_script, cli_search_result)
       THEN /\ ExitWith("warning: the search result is empty")
            /\ UNCHANGED cli_source_text
       ELSE /\ cli_source_text' = SourceText(cli_script, cli_search_result)
            /\ cli_pc' = "generate"
            /\ UNCHANGED <<cli_printed, cli_exit>>
    /\ UNCHANGED <<cli_script, cli_args, cli_env, cli_model_name, cli_calls,
                   cli_search_result, cli_generated, cli_files>>
    /\ UNCHANGED notScript

\* lines 141-154 (166-181): the generator is built and called; any
\* Exception is reported and ends the run
CliGenerate ==
    /\ cli_pc = "generate"
    /\ \/ /\ cli_generated' \in CliGeneratedTexts
          /\ cli_calls' = Append(cli_calls,
                 CliCall("generate", GenerateMethod(cli_script), "returned"))
          /\ cli_pc' = "write"
          /\ UNCHANGED <<cli_printed, cli_exit>>
       \/ /\ cli_calls' = Append(cli_calls,
                 CliCall("generate", GenerateMethod(cli_script), "raised"))
          /\ ExitWith("generation error: ")
          /\ UNCHANGED cli_generated
    /\ UNCHANGED <<cli_script, cli_args, cli_env, cli_model_name,
                   cli_search_result, cli_source_text, cli_files>>
    /\ UNCHANGED notScript

\* lines 160-161 (187-188): Path(args.output).write_text(...); an OSError
\* of the file system is caught nowhere and ends the process with status 1
WriteFile ==
    /\ cli_pc = "write"
    /\ \/ /\ cli_files' = Append(cli_files,
                 FileWrite(cli_args.output, cli_generated))
          /\ cli_pc' = "preview"
          /\ UNCHANGED <<cli_printed, cli_exit>>
       \/ /\ ExitWith("Traceback: OSError")
          /\ UNCHANGED cli_files
    /\ UNCHANGED <<cli_script, cli_args, cli_env, cli_model_name, cli_calls,
                   cli_search_result, cli_source_text, cli_generated>>
    /\ UNCHANGED notScript

\* lines 163-179 (190-206): the preview is printed and main returns
Finish ==
    /\ cli_pc = "preview"
    /\ cli_exit' = <<0>>
    /\ cli_pc' = "exited"
    /\ UNCHANGED <<cli_script, cli_args, cli_env, cli_model_name, cli_calls,
                   cli_search_result, cli_source_text, cli_generated, cli_files,
                   cli_printed>>
    /\ UNCHANGED notScript

ScriptNext ==
    \/ GetConfig
    \/ CliSearch
    \/ CheckResult
    \/ CliGenerate
    \/ WriteFile
    \/ Finish

(***************************************************************************)
(* Properties of the command-line scripts.                                 *)
(***************************************************************************)
ConfigurationMissing ==
    cli_pc # Idle /\ \E k \in DOMAIN cli_env : cli_env[k] \in {Absent, ""}

StepOutcome(step, outcome) ==
    \E i \in 1..Len(cli_calls) :
        cli_calls[i].step = step /\ cli_calls[i].outcome = outcome

EmptySearchResult ==
    /\ StepOutcome("search", "returned")
    /\ IF cli_script = "generate_slides"
       THEN Len(cli_search_result.results) = 0
       ELSE cli_search_result.summary = ""

UnrecoverableError ==
    \/ ConfigurationMissing
    \/ StepOutcome("search", "raised")
    \/ EmptySearchResult
    \/ StepOutcome("generate", "raised")

\* C18: on missing configuration, a search exception, an empty search
\* result or a generation exception the script writes no output file and
\* ends with a non-zero status; the output file is written at most once,
\* only after the search and the generation have both succeeded, and a run
\* that ends with status 0 has written it exactly once.
C18_NonZeroExitAndSingleWrite ==
    /\ UnrecoverableError =>
          /\ cli_files = <<>>
          /\ cli_pc \in {"config", "check", "exited"}
          /\ cli_pc = "exited" => cli_exit # <<>> /\ cli_exit[1] # 0
    /\ Len(cli_files) <= 1
    /\ cli_files # <<>> =>
          /\ StepOutcome("search", "returned")
          /\ StepOutcome("generate", "returned")
          /\ cli_files = <<FileWrite(cli_args.output, cli_generated)>>
    /\ cli_exit = <<0>> => Len(cli_files) = 1

C18_Witness ==
    /\ cli_script = "generate_infographic"
    /\ cli_pc = "exited"
    /\ cli_exit = <<0>>
    /\ cli_files = <<FileWrite("my.md", "generated text")>>
    /\ cli_printed = NoneVal

(***************************************************************************)
(* ----------------------------------------------------------------------- *)
(* The answer-query implementation of search_and_answer:                   *)
(* infrastructure/external/vertex_ai_search_service.py, _parse_response,   *)
(* lines 142-176                                                           *)
(* ----------------------------------------------------------------------- *)
(***************************************************************************)
\* a reference: whether it has unstructured_document_info, and the uri and
\* title of that
Reference(info, uri, title) == [info |-> info, uri |-> uri, title |-> title]

References ==
    {Reference(TRUE, "gs://b/a.pdf", "A"), Reference(TRUE, "gs://b/a.pdf", "A again"),
     Reference(TRUE, "gs://b/b.pdf", ""), Reference(FALSE, "", "")}

ReferenceLists == {<<>>} \cup {<<r>> : r \in References}
                  \cup {<<r, q>> : r \in References, q \in References}

\* reference_index is an integer of the response: positions of the list,
\* the first position after it, and a negative number
ReferenceIndexes == {-1, 0, 1, 2}

\* the sources of one citation, each a reference_index
CitationSources ==
    {<<>>} \cup {<<i>> : i \in ReferenceIndexes}
    \cup {<<0, 0>>, <<1, 0>>, <<0, 2>>}

ConvAnswer(present, text, references, citations) ==
    [answer |-> present, answer_text |-> text, references |-> references,
     citations |-> citations]

NoConvResponse == ConvAnswer(FALSE, Idle, <<>>, <<>>)

ConvResponses ==
    {ConvAnswer(FALSE, "", <<>>, <<>>)}
    \cup {ConvAnswer(TRUE, t, r, c) :
            t \in {"", "the answer"}, r \in ReferenceLists,
            c \in SeqsUpTo(CitationSources, MaxCitations)}

\* the two loops of lines 159-160 visit the sources citation by citation
RECURSIVE AllSources(_)
AllSources(citations) ==
    IF citations = <<>> THEN <<>>
    ELSE Head(citations) \o AllSources(Tail(citations))

\* references[ref_index] of a Python sequence: a negative index counts from
\* the end, an index beyond either end is an IndexError
Raises == [raises |-> TRUE, ref |-> Reference(FALSE, "", "")]
GetItem(references, ref_index) ==
    IF ref_index >= 0 /\ ref_index < Len(references)
    THEN [raises |-> FALSE, ref |-> references[ref_index + 1]]
    ELSE IF ref_index < 0 /\ 0 - ref_index <= Len(references)
    THEN [raises |-> FALSE, ref |-> references[Len(references) + ref_index + 1]]
    ELSE Raises

\* any(c.url == uri for c in citations)
Cited(citations, uri) == \E i \in 1..Len(citations) : citations[i].url = uri

\* lines 167-175: the citation a reference adds, if any
WithReference(citations, ref) ==
    IF ~ref.info THEN citations
    ELSE LET uri == IF Truthy(ref.uri) THEN ref.uri ELSE ""
             title == IF Truthy(ref.title) THEN ref.title ELSE UntitledTitle
         IN  IF Cited(citations, uri) THEN citations
             ELSE Append(citations, [title |-> title, url |-> uri])

\* lines 159-175: the loop over the sources; raised tells that an exception
\* left the loop
RECURSIVE CiteSources(_, _, _)
CiteSources(sources, references, citations) ==
    IF sources = <<>> THEN [raised |-> FALSE, citations |-> citations]
    ELSE LET ref_index == Head(sources)
         IN  IF ref_index < Len(references)
             THEN LET item == GetItem(references, ref_index)
                  IN  IF item.raises
                      THEN [raised |-> TRUE, citations |-> citations]
                      ELSE CiteSources(Tail(sources), references,
                                       WithReference(citations, item.ref))
             ELSE CiteSources(Tail(sources), references, citations)

\* lines 152-154
ConvSummary(resp) ==
    IF resp.answer /\ Truthy(resp.answer_text) THEN resp.answer_text ELSE ""

ConvInit ==
    /\ cv_pc = "parse"
    /\ cv_response \in ConvResponses
    /\ cv_result = NoSearchResult
    /\ cv_raised = NoException

ConvIdle ==
    /\ cv_pc = Idle
    /\ cv_response = NoConvResponse
    /\ cv_result = NoSearchResult
    /\ cv_raised = NoException

\* lines 151-176
ConvParse ==
    /\ cv_pc = "parse"
    /\ LET cited == IF cv_response.answer
                    THEN CiteSources(AllSources(cv_response.citations),
                                     cv_response.references, <<>>)
                    ELSE [raised |-> FALSE, citations |-> <<>>]
       IN  IF cited.raised
           THEN /\ cv_raised' = [cls |-> "IndexError", at |-> "_parse_response"]
                /\ cv_pc' = "raised"
                /\ cv_result' = cv_result
           ELSE /\ cv_result' = SearchResult(ConvSummary(cv_response),
                                             cited.citations)
                /\ cv_pc' = "returned"
                /\ cv_raised' = cv_raised
    /\ UNCHANGED cv_response
    /\ UNCHANGED notConv

ConvNext ==
    \/ ConvParse

(***************************************************************************)
(* Properties of the answer-query _parse_response.                         *)
(***************************************************************************)
\* the source points into the references list, at a reference with
\* document info
PointsAtDocument(ref_index) ==
    /\ ref_index >= 0
    /\ ref_index < Len(cv_response.references)
    /\ cv_response.references[ref_index + 1].info

\* the elements of a sequence without the repetitions, in the order of
\* first occurrence
RECURSIVE FirstOccurrences(_)
FirstOccurrences(seq) ==
    IF seq = <<>> THEN <<>>
    ELSE LET front == FirstOccurrences(SubSeq(seq, 1, Len(seq) - 1))
             last == seq[Len(seq)]
         IN  IF \E i \in 1..Len(front) : front[i] = last THEN front
             ELSE Append(front, last)

\* the urls of the references the sources point at, source by source
PointedUrls ==
    LET used == SelectSeq(AllSources(cv_response.citations), PointsAtDocument)
    IN  [i \in 1..Len(used) |-> cv_response.references[used[i] + 1].uri]

CitationsAsStated ==
    /\ cv_pc = "returned"
    /\ \A i \in 1..Len(cv_result.citations) :
          \A j \in 1..Len(cv_result.citations) :
             cv_result.citations[i].url = cv_result.citations[j].url => i = j
    /\ [i \in 1..Len(cv_result.citations) |-> cv_result.citations[i].url]
          = FirstOccurrences(PointedUrls)

\* C29: the citations returned never hold two entries with the same URL:
\* a reference already cited is not added again, the entries keep the order
\* of first occurrence, and a source whose reference_index is outside the
\* references list is skipped, it does not raise.
C29_NoDuplicateCitations ==
    (cv_pc \in {"returned", "raised"} /\ cv_response.answer) => CitationsAsStated

\* the same for the responses whose reference_index values are all 0 or
\* more
C29_ForIndexesFromZero ==
    (cv_pc \in {"returned", "raised"} /\ cv_response.answer
        /\ \A i \in 1..Len(AllSources(cv_response.citations)) :
              AllSources(cv_response.citations)[i] >= 0) => CitationsAsStated

(***************************************************************************)
(* Specifications.                                                         *)
(***************************************************************************)
\* one invocation of search_documents
SearchStart ==
    SearchInit /\ ToolIdle /\ ParamsIdle /\ ValueIdle /\ NotebookIdle
       /\ CredIdle /\ ServiceIdle /\ AnswerIdle /\ DispatchIdle
       /\ ScriptIdle /\ ConvIdle
SearchSpec == SearchStart /\ [][SearchNext]_vars

\* one invocation of a tool handler
ToolStart ==
    ToolInit /\ SearchIdle /\ ParamsIdle /\ ValueIdle /\ NotebookIdle
       /\ CredIdle /\ ServiceIdle /\ AnswerIdle /\ DispatchIdle
       /\ ScriptIdle /\ ConvIdle
ToolSpec == ToolStart /\ [][ToolNext]_vars

\* one invocation of generate_search_params
ParamsStart ==
    ParamsInit /\ SearchIdle /\ ToolIdle /\ ValueIdle /\ NotebookIdle
       /\ CredIdle /\ ServiceIdle /\ AnswerIdle /\ DispatchIdle
       /\ ScriptIdle /\ ConvIdle
ParamsSpec == ParamsStart /\ [][ParamsNext]_vars

\* one construction of a value object, then str() of it
ValueStart ==
    ValueInit /\ SearchIdle /\ ToolIdle /\ ParamsIdle /\ NotebookIdle
       /\ CredIdle /\ ServiceIdle /\ AnswerIdle /\ DispatchIdle
       /\ ScriptIdle /\ ConvIdle
ValueSpec == ValueStart /\ [][ValueNext]_vars

\* one Notebook: its construction, then calls of add_source
NotebookStart ==
    NotebookInit /\ SearchIdle /\ ToolIdle /\ ParamsIdle /\ ValueIdle
       /\ CredIdle /\ ServiceIdle /\ AnswerIdle /\ DispatchIdle
       /\ ScriptIdle /\ ConvIdle
NotebookSpec == NotebookStart /\ [][NotebookNext]_vars

\* one invocation of _load_credentials
CredStart ==
    CredInit /\ SearchIdle /\ ToolIdle /\ ParamsIdle /\ ValueIdle
       /\ NotebookIdle /\ ServiceIdle /\ AnswerIdle /\ DispatchIdle
       /\ ScriptIdle /\ ConvIdle
CredSpec == CredStart /\ [][CredNext]_vars

\* one invocation of a method of NotebookService
ServiceStart ==
    ServiceInit /\ SearchIdle /\ ToolIdle /\ ParamsIdle /\ ValueIdle
       /\ NotebookIdle /\ CredIdle /\ AnswerIdle /\ DispatchIdle
       /\ ScriptIdle /\ ConvIdle
ServiceSpec == ServiceStart /\ [][ServiceNext]_vars

\* one invocation of search_and_answer
AnswerStart ==
    AnswerInit /\ SearchIdle /\ ToolIdle /\ ParamsIdle /\ ValueIdle
       /\ NotebookIdle /\ CredIdle /\ ServiceIdle /\ DispatchIdle
       /\ ScriptIdle /\ ConvIdle
AnswerSpec == AnswerStart /\ [][AnswerNext]_vars

\* one invocation of call_tool
DispatchStart ==
    DispatchInit /\ SearchIdle /\ ToolIdle /\ ParamsIdle /\ ValueIdle
       /\ NotebookIdle /\ CredIdle /\ ServiceIdle /\ AnswerIdle
       /\ ScriptIdle /\ ConvIdle
DispatchSpec == DispatchStart /\ [][DispatchNext]_vars

\* one run of a command-line script
ScriptStart ==
    ScriptInit /\ SearchIdle /\ ToolIdle /\ ParamsIdle /\ ValueIdle
       /\ NotebookIdle /\ CredIdle /\ ServiceIdle /\ AnswerIdle
       /\ DispatchIdle /\ ConvIdle
ScriptSpec == ScriptStart /\ [][ScriptNext]_vars

\* one parse of an answer-query response
ConvStart ==
    ConvInit /\ SearchIdle /\ ToolIdle /\ ParamsIdle /\ ValueIdle
       /\ NotebookIdle /\ CredIdle /\ ServiceIdle /\ AnswerIdle
       /\ DispatchIdle /\ ScriptIdle
ConvSpec == ConvStart /\ [][ConvNext]_vars

====
